---- MODULE Spec2Model ----
(***************************************************************************)
(* Service Ninja MCP server: the tool dispatcher (ToolCallController), the *)
(* tool handlers bound to the catalogue, the repository layer and the      *)
(* SQLite store they act on.                                               *)
(*                                                                         *)
(* Conventions.                                                            *)
(*  - A JavaScript argument object is a record whose DOMAIN is the set of  *)
(*    properties it carries; a property that is absent is `undefined`.     *)
(*  - A table is the set of its rows; SELECT without ORDER BY yields rows  *)
(*    in rowid order, and query.get() yields the row of least rowid.       *)
(*  - A call of an async function ends in one of two ways: its promise     *)
(*    fulfils with an envelope {isError, content} or it rejects.           *)
(*  - failAt = k makes the k-th repository call of a tool call fail in the *)
(*    store (getOrCreateSqlLite or the statement throws); 0 = no failure.  *)
(***************************************************************************)
EXTENDS Integers, FiniteSets, Sequences, TLC

VARIABLES
    projects,          \* rows of "service-ninja-project"
    envs,              \* rows of "service-ninja-env"
    resources,         \* rows of "service-ninja-resource"
    contacts,          \* rows of "service-ninja-contact"
    resourceContacts,  \* rows of "service-ninja-resource-contact"
    rcTable,           \* does the association table exist in mcp.sqlite
    call,              \* the last request: [via, name, args, failAt]
    result,            \* how the last request ended
    running,           \* the handlers suspended at an await, one per slot
    sqlite             \* the module variable db of sql-lite.init and what opening did

vars ==
    <<projects, envs, resources, contacts, resourceContacts, rcTable, call, result,
      running, sqlite>>

tables == <<projects, envs, resources, contacts, resourceContacts, rcTable>>

(***************************************************************************)
(* Bounds of the model.                                                    *)
(***************************************************************************)
\* the largest rowid a create may assign; creates are disabled beyond it
MaxId == 2

(***************************************************************************)
(* JavaScript values.                                                      *)
(***************************************************************************)
Has(a, f) == f \in DOMAIN a

\* !a.f for a numeric property: undefined and 0 are falsy
TruthyN(a, f) == Has(a, f) /\ a[f] # 0

\* !a.f for a string property: undefined and "" are falsy
TruthyS(a, f) == Has(a, f) /\ a[f] # ""

\* SQL NULL in a TEXT column
Null == "<null>"

\* String.prototype.toLowerCase on the strings the model uses
toLowerCase(s) ==
    CASE s = "Acme" -> "acme"
      [] s = "ACME" -> "acme"
      [] s = "Beta" -> "beta"
      [] s = "Dev"  -> "dev"
      [] s = "Api"  -> "api"
      [] OTHER      -> s

\* /^[^\s@]+@[^\s@]+\.[^\s@]+$/.test(s) on the strings the model uses
emailRegexTest(s) == s \in {"ann@x.io", "bob@x.io", "Ann@x.io"}

Max(S) == CHOOSE x \in S : \A y \in S : y <= x

(***************************************************************************)
(* The store.  S is the record of the tables; a repository call returns    *)
(* [thrown, store, rows, changes]: whether it threw, the store after it,   *)
(* the rows it read and result.changes of the statement it ran.            *)
(***************************************************************************)
Store == [projects |-> projects, envs |-> envs, resources |-> resources,
          contacts |-> contacts, resourceContacts |-> resourceContacts,
          rcTable |-> rcTable]

Throw(S) == [thrown |-> TRUE, store |-> S, rows |-> {}, changes |-> 0]

Ret(S, rows, changes) == [thrown |-> FALSE, store |-> S, rows |-> rows, changes |-> changes]

\* id INTEGER PRIMARY KEY: an alias of the rowid, which SQLite assigns as
\* one more than the largest rowid in the table (1 in an empty table)
NextRowId(T) == IF T = {} THEN 1 ELSE Max({r.id : r \in T}) + 1

\* query.get(): the first matching row in rowid order, or undefined ({})
FirstRow(T) == IF T = {} THEN {} ELSE {CHOOSE r \in T : \A q \in T : r.id <= q.id}

\* the value a SET clause leaves in column f of row r
Col(r, p, f, written) == IF written THEN p[f] ELSE r[f]

(***************************************************************************)
(* Repository: projects.                                                   *)
(***************************************************************************)
getServiceNinjaProjects(S, up) ==
    IF ~up THEN Throw(S) ELSE Ret(S, S.projects, 0)

getServiceNinjaProject(S, up, p) ==
    IF ~TruthyS(p, "name") /\ ~TruthyN(p, "id") THEN Throw(S)
    ELSE IF ~up THEN Throw(S)
    ELSE IF TruthyS(p, "name")
         THEN Ret(S, FirstRow({r \in S.projects : r.name = p.name}), 0)
         \* key = name ?? id: an empty-string name is not nullish and is
         \* bound to "id = ?", which matches no row
         ELSE IF Has(p, "name") THEN Ret(S, {}, 0)
         ELSE Ret(S, FirstRow({r \in S.projects : r.id = p.id}), 0)

\* a faulty insert into a table whose name column is not UNIQUE; the
\* outcome of racing create_project calls (C34) must tell it from the real one
createServiceNinjaProjectNotUnique(S, up, p) ==
    IF ~TruthyS(p, "name") \/ ~TruthyS(p, "description") THEN Throw(S)
    ELSE IF ~up THEN Throw(S)
    ELSE Ret([S EXCEPT !.projects = @ \cup
                 {[id |-> NextRowId(S.projects), name |-> p.name,
                   description |-> p.description]}], {}, 1)

createServiceNinjaProject(S, up, p) ==
    IF ~TruthyS(p, "name") \/ ~TruthyS(p, "description") THEN Throw(S)
    ELSE IF ~up THEN Throw(S)
    \* name TEXT NOT NULL UNIQUE: the insert fails on an equal name
    ELSE IF \E r \in S.projects : r.name = p.name THEN Throw(S)
    ELSE Ret([S EXCEPT !.projects = @ \cup
                 {[id |-> NextRowId(S.projects), name |-> p.name,
                   description |-> p.description]}], {}, 1)

updateServiceNinjaProject(S, up, p) ==
    IF ~TruthyN(p, "id") THEN Throw(S)
    ELSE IF ~up THEN Throw(S)
    ELSE IF ~TruthyS(p, "name") /\ ~TruthyS(p, "description") THEN Throw(S)
    ELSE LET hit == {r \in S.projects : r.id = p.id}
             new(r) == [id |-> r.id,
                        name |-> Col(r, p, "name", TruthyS(p, "name")),
                        description |-> Col(r, p, "description", TruthyS(p, "description"))]
         IN  \* name TEXT NOT NULL UNIQUE: the update fails on an equal name
             IF TruthyS(p, "name") /\ hit # {}
                /\ \E q \in S.projects \ hit : q.name = p.name
             THEN Throw(S)
             ELSE Ret([S EXCEPT !.projects = (@ \ hit) \cup {new(r) : r \in hit}],
                      {}, Cardinality(hit))

\* a faulty delete that also removes the environments of the project; the
\* frame of the write tools (C29) must tell it from the real one
deleteServiceNinjaProjectCascade(S, up, p) ==
    IF ~TruthyN(p, "id") THEN Throw(S)
    ELSE IF ~up THEN Throw(S)
    ELSE LET hit == {r \in S.projects : r.id = p.id}
         IN  Ret([S EXCEPT !.projects = @ \ hit,
                           !.envs = {e \in @ : e.projectId # p.id}],
                 {}, Cardinality(hit))

deleteServiceNinjaProject(S, up, p) ==
    IF ~TruthyN(p, "id") THEN Throw(S)
    ELSE IF ~up THEN Throw(S)
    ELSE LET hit == {r \in S.projects : r.id = p.id}
         IN  Ret([S EXCEPT !.projects = @ \ hit], {}, Cardinality(hit))

(***************************************************************************)
(* Repository: environments.                                               *)
(***************************************************************************)
getServiceNinjaEnvs(S, up, p) ==
    IF ~up THEN Throw(S)
    ELSE IF TruthyN(p, "projectId")
         THEN Ret(S, {r \in S.envs : r.projectId = p.projectId}, 0)
         ELSE Ret(S, S.envs, 0)

getServiceNinjaEnv(S, up, p) ==
    IF ~TruthyS(p, "name") /\ ~TruthyN(p, "id") THEN Throw(S)
    ELSE IF ~up THEN Throw(S)
    ELSE LET inProject(r) == TruthyN(p, "projectId") => r.projectId = p.projectId
         IN  IF TruthyS(p, "name")
             THEN Ret(S, FirstRow({r \in S.envs : r.name = p.name /\ inProject(r)}), 0)
             ELSE IF Has(p, "name") THEN Ret(S, {}, 0)
             ELSE Ret(S, FirstRow({r \in S.envs : r.id = p.id /\ inProject(r)}), 0)

\* a faulty insert behind a UNIQUE (name, projectId) index the table does
\* not have; the race of two creates (C30) must tell it from the real one
createServiceNinjaEnvUnique(S, up, p) ==
    IF ~TruthyS(p, "name") \/ ~TruthyN(p, "projectId") THEN Throw(S)
    ELSE IF ~up THEN Throw(S)
    ELSE IF \E r \in S.envs : r.name = p.name /\ r.projectId = p.projectId THEN Throw(S)
    ELSE Ret([S EXCEPT !.envs = @ \cup
                 {[id |-> NextRowId(S.envs), name |-> p.name,
                   description |-> IF TruthyS(p, "description") THEN p.description ELSE "",
                   projectId |-> p.projectId]}], {}, 1)

createServiceNinjaEnv(S, up, p) ==
    IF ~TruthyS(p, "name") \/ ~TruthyN(p, "projectId") THEN Throw(S)
    ELSE IF ~up THEN Throw(S)
    ELSE Ret([S EXCEPT !.envs = @ \cup
                 {[id |-> NextRowId(S.envs), name |-> p.name,
                   description |-> IF TruthyS(p, "description") THEN p.description ELSE "",
                   projectId |-> p.projectId]}], {}, 1)

updateServiceNinjaEnv(S, up, p) ==
    IF ~TruthyN(p, "id") THEN Throw(S)
    ELSE IF ~up THEN Throw(S)
    ELSE IF ~TruthyS(p, "name") /\ ~Has(p, "description") /\ ~TruthyN(p, "projectId")
         THEN Throw(S)
    ELSE LET hit == {r \in S.envs : r.id = p.id}
             new(r) == [id |-> r.id,
                        name |-> Col(r, p, "name", TruthyS(p, "name")),
                        description |-> Col(r, p, "description", Has(p, "description")),
                        projectId |-> Col(r, p, "projectId", TruthyN(p, "projectId"))]
         IN  Ret([S EXCEPT !.envs = (@ \ hit) \cup {new(r) : r \in hit}],
                 {}, Cardinality(hit))

deleteServiceNinjaEnv(S, up, p) ==
    IF ~TruthyN(p, "id") THEN Throw(S)
    ELSE IF ~up THEN Throw(S)
    ELSE LET hit == {r \in S.envs : r.id = p.id}
         IN  Ret([S EXCEPT !.envs = @ \ hit], {}, Cardinality(hit))

(***************************************************************************)
(* Repository: resources.                                                  *)
(***************************************************************************)
\* a faulty WHERE clause that filters by project only; the rows
\* list_resources returns (C15) must tell it from the real one
InScopeProjectOnly(r, p) ==
    IF TruthyN(p, "projectId") THEN r.projectId = p.projectId ELSE TRUE

\* WHERE clause of getServiceNinjaResources
InScope(r, p) ==
    IF TruthyN(p, "projectId") /\ TruthyN(p, "envId")
    THEN r.projectId = p.projectId /\ r.envId = p.envId
    ELSE IF TruthyN(p, "projectId") THEN r.projectId = p.projectId
    ELSE IF TruthyN(p, "envId") THEN r.envId = p.envId
    ELSE TRUE

getServiceNinjaResources(S, up, p) ==
    IF ~up THEN Throw(S) ELSE Ret(S, {r \in S.resources : InScope(r, p)}, 0)

getServiceNinjaResource(S, up, p) ==
    IF ~TruthyS(p, "name") /\ ~TruthyN(p, "id") THEN Throw(S)
    ELSE IF ~up THEN Throw(S)
    ELSE LET scoped(r) == /\ TruthyN(p, "projectId") => r.projectId = p.projectId
                          /\ TruthyN(p, "envId") => r.envId = p.envId
         IN  IF TruthyS(p, "name")
             THEN Ret(S, FirstRow({r \in S.resources : r.name = p.name /\ scoped(r)}), 0)
             ELSE IF Has(p, "name") THEN Ret(S, {}, 0)
             ELSE Ret(S, FirstRow({r \in S.resources : r.id = p.id /\ scoped(r)}), 0)

\* params.f || null for an optional TEXT column
OrNull(p, f) == IF TruthyS(p, f) THEN p[f] ELSE Null

createServiceNinjaResource(S, up, p) ==
    IF \/ ~TruthyS(p, "name") \/ ~TruthyS(p, "description") \/ ~TruthyS(p, "type")
       \/ ~TruthyN(p, "projectId") \/ ~TruthyN(p, "envId")
    THEN Throw(S)
    ELSE IF ~up THEN Throw(S)
    ELSE Ret([S EXCEPT !.resources = @ \cup
                 {[id |-> NextRowId(S.resources), name |-> p.name,
                   description |-> p.description, type |-> p.type,
                   projectId |-> p.projectId, envId |-> p.envId,
                   healthCheckUrl |-> OrNull(p, "healthCheckUrl"),
                   aliveCheckUrl |-> OrNull(p, "aliveCheckUrl"),
                   headers |-> OrNull(p, "headers"),
                   isIhService |-> Has(p, "isIhService") /\ p.isIhService]}], {}, 1)

updateServiceNinjaResource(S, up, p) ==
    IF ~TruthyN(p, "id") THEN Throw(S)
    ELSE IF ~up THEN Throw(S)
    ELSE IF /\ ~TruthyS(p, "name") /\ ~Has(p, "description") /\ ~TruthyS(p, "type")
            /\ ~TruthyN(p, "projectId") /\ ~TruthyN(p, "envId")
            /\ ~Has(p, "healthCheckUrl") /\ ~Has(p, "aliveCheckUrl")
            /\ ~Has(p, "headers") /\ ~Has(p, "isIhService")
         THEN Throw(S)
    ELSE LET hit == {r \in S.resources : r.id = p.id}
             new(r) == [id |-> r.id,
                        name |-> Col(r, p, "name", TruthyS(p, "name")),
                        description |-> Col(r, p, "description", Has(p, "description")),
                        type |-> Col(r, p, "type", TruthyS(p, "type")),
                        projectId |-> Col(r, p, "projectId", TruthyN(p, "projectId")),
                        envId |-> Col(r, p, "envId", TruthyN(p, "envId")),
                        healthCheckUrl |-> Col(r, p, "healthCheckUrl", Has(p, "healthCheckUrl")),
                        aliveCheckUrl |-> Col(r, p, "aliveCheckUrl", Has(p, "aliveCheckUrl")),
                        headers |-> Col(r, p, "headers", Has(p, "headers")),
                        isIhService |-> Col(r, p, "isIhService", Has(p, "isIhService"))]
         IN  Ret([S EXCEPT !.resources = (@ \ hit) \cup {new(r) : r \in hit}],
                 {}, Cardinality(hit))

deleteServiceNinjaResource(S, up, p) ==
    IF ~TruthyN(p, "id") THEN Throw(S)
    ELSE IF ~up THEN Throw(S)
    ELSE LET hit == {r \in S.resources : r.id = p.id}
         IN  Ret([S EXCEPT !.resources = @ \ hit], {}, Cardinality(hit))

(***************************************************************************)
(* Repository: contacts.                                                   *)
(***************************************************************************)
getServiceNinjaContacts(S, up) ==
    IF ~up THEN Throw(S) ELSE Ret(S, S.contacts, 0)

\* searchTerm.trim().length === 0
Blank(term) == term \in {"", " "}

\* text LIKE '%term%' on the strings of the model: SQLite's LIKE ignores
\* the case of ASCII letters
Like(text, term) ==
    CASE term = "ann" -> text \in {"Ann", "ann@x.io", "Ann@x.io"}
      [] term = "LEE" -> text = "Lee"
      [] term = "x.io" -> text \in {"ann@x.io", "Ann@x.io", "bob@x.io"}
      [] OTHER -> FALSE

searchServiceNinjaContacts(S, up, searchTerm) ==
    IF Blank(searchTerm) THEN Throw(S)
    ELSE IF ~up THEN Throw(S)
    ELSE Ret(S, {r \in S.contacts : \/ Like(r.firstName, searchTerm)
                                    \/ Like(r.lastName, searchTerm)
                                    \/ Like(r.email, searchTerm)}, 0)

\* a faulty lookup that never finds a contact; the uniqueness of emails
\* (C7) must tell it from the real one
getServiceNinjaContactBlind(S, up, p) == Ret(S, {}, 0)

getServiceNinjaContact(S, up, p) ==
    IF ~TruthyS(p, "email") /\ ~TruthyN(p, "id") THEN Throw(S)
    ELSE IF ~up THEN Throw(S)
    ELSE IF TruthyS(p, "email")
         THEN Ret(S, FirstRow({r \in S.contacts : r.email = p.email}), 0)
         ELSE Ret(S, FirstRow({r \in S.contacts : r.id = p.id}), 0)

createServiceNinjaContact(S, up, p) ==
    IF ~TruthyS(p, "firstName") \/ ~TruthyS(p, "lastName") \/ ~TruthyS(p, "email")
    THEN Throw(S)
    ELSE IF ~emailRegexTest(p.email) THEN Throw(S)
    ELSE IF ~up THEN Throw(S)
    ELSE Ret([S EXCEPT !.contacts = @ \cup
                 {[id |-> NextRowId(S.contacts), firstName |-> p.firstName,
                   lastName |-> p.lastName, email |-> p.email,
                   phone |-> OrNull(p, "phone")]}], {}, 1)

updateServiceNinjaContact(S, up, p) ==
    IF ~TruthyN(p, "id") THEN Throw(S)
    ELSE IF ~up THEN Throw(S)
    ELSE IF TruthyS(p, "email") /\ ~emailRegexTest(p.email) THEN Throw(S)
    ELSE IF /\ ~TruthyS(p, "firstName") /\ ~TruthyS(p, "lastName")
            /\ ~TruthyS(p, "email") /\ ~Has(p, "phone")
         THEN Throw(S)
    ELSE LET hit == {r \in S.contacts : r.id = p.id}
             new(r) == [id |-> r.id,
                        firstName |-> Col(r, p, "firstName", TruthyS(p, "firstName")),
                        lastName |-> Col(r, p, "lastName", TruthyS(p, "lastName")),
                        email |-> Col(r, p, "email", TruthyS(p, "email")),
                        phone |-> Col(r, p, "phone", Has(p, "phone"))]
         IN  Ret([S EXCEPT !.contacts = (@ \ hit) \cup {new(r) : r \in hit}],
                 {}, Cardinality(hit))

deleteServiceNinjaContact(S, up, p) ==
    IF ~TruthyN(p, "id") THEN Throw(S)
    ELSE IF ~up THEN Throw(S)
    ELSE LET hit == {r \in S.contacts : r.id = p.id}
         IN  Ret([S EXCEPT !.contacts = @ \ hit], {}, Cardinality(hit))

(***************************************************************************)
(* Repository: resource-contact associations.  A statement on the table    *)
(* fails ("no such table") while the table does not exist.  A row carries  *)
(* the rowid SQLite gives it besides the three columns the code writes.    *)
(***************************************************************************)
SamePair(r, p) == r.resourceId = p.resourceId /\ r.contactId = p.contactId

\* a faulty lookup that never finds an association; the uniqueness of
\* pairs (C8) must tell it from the real one
getResourceContactBlind(S, up, p) == IF ~S.rcTable THEN Throw(S) ELSE Ret(S, {}, 0)

getResourceContact(S, up, p) ==
    IF ~TruthyN(p, "resourceId") \/ ~TruthyN(p, "contactId") THEN Throw(S)
    ELSE IF ~up \/ ~S.rcTable THEN Throw(S)
    ELSE LET hit == {r \in S.resourceContacts : SamePair(r, p)}
         IN  \* query.get(): the matching row of least rowid
             Ret(S, {r \in hit : \A q \in hit : r.rowid <= q.rowid}, 0)

\* up1 is the store access of the inner getResourceContact, up2 of the INSERT
createResourceContact(S, up1, up2, p) ==
    IF ~TruthyN(p, "resourceId") \/ ~TruthyN(p, "contactId") \/ ~TruthyS(p, "role")
    THEN Throw(S)
    ELSE LET existing == getResourceContact(S, up1, p)
         IN  IF existing.thrown \/ existing.rows # {} THEN Throw(S)
             ELSE IF ~up2 \/ ~S.rcTable THEN Throw(S)
             ELSE Ret([S EXCEPT !.resourceContacts = @ \cup
                          {[rowid |-> NextRowId({[id |-> r.rowid] : r \in S.resourceContacts}),
                            resourceId |-> p.resourceId, contactId |-> p.contactId,
                            role |-> p.role]}], {}, 1)

updateResourceContact(S, up, p) ==
    IF ~TruthyN(p, "resourceId") \/ ~TruthyN(p, "contactId") \/ ~TruthyS(p, "role")
    THEN Throw(S)
    ELSE IF ~up \/ ~S.rcTable THEN Throw(S)
    ELSE LET hit == {r \in S.resourceContacts : SamePair(r, p)}
         IN  Ret([S EXCEPT !.resourceContacts =
                      (@ \ hit) \cup {[r EXCEPT !.role = p.role] : r \in hit}],
                 {}, Cardinality(hit))

deleteResourceContact(S, up, p) ==
    IF ~TruthyN(p, "resourceId") \/ ~TruthyN(p, "contactId") THEN Throw(S)
    ELSE IF ~up \/ ~S.rcTable THEN Throw(S)
    ELSE LET hit == {r \in S.resourceContacts : SamePair(r, p)}
         IN  Ret([S EXCEPT !.resourceContacts = @ \ hit], {}, Cardinality(hit))

(***************************************************************************)
(* Repository: delete all rows of a parent.  rows holds the one object     *)
(* { success, deletedCount } the function returns.                         *)
(***************************************************************************)
\* return { success: true, deletedCount: result.changes }
Deleted(S, n) == Ret(S, {[success |-> TRUE, deletedCount |-> n]}, n)

\* return { success: result.changes > 0, deletedCount: result.changes }
DeletedIfAny(S, n) == Ret(S, {[success |-> n > 0, deletedCount |-> n]}, n)

deleteServiceNinjaEnvsByProjectId(S, up, projectId) ==
    IF projectId = 0 THEN Throw(S)
    ELSE IF ~up THEN Throw(S)
    ELSE LET hit == {r \in S.envs : r.projectId = projectId}
         IN  Deleted([S EXCEPT !.envs = @ \ hit], Cardinality(hit))

deleteServiceNinjaResourcesByEnvId(S, up, envId) ==
    IF envId = 0 THEN Throw(S)
    ELSE IF ~up THEN Throw(S)
    ELSE LET hit == {r \in S.resources : r.envId = envId}
         IN  Deleted([S EXCEPT !.resources = @ \ hit], Cardinality(hit))

deleteServiceNinjaResourcesByProjectId(S, up, projectId) ==
    IF projectId = 0 THEN Throw(S)
    ELSE IF ~up THEN Throw(S)
    ELSE LET hit == {r \in S.resources : r.projectId = projectId}
         IN  Deleted([S EXCEPT !.resources = @ \ hit], Cardinality(hit))

deleteResourceContactsByResourceId(S, up, resourceId) ==
    IF resourceId = 0 THEN Throw(S)
    ELSE IF ~up \/ ~S.rcTable THEN Throw(S)
    ELSE LET hit == {r \in S.resourceContacts : r.resourceId = resourceId}
         IN  DeletedIfAny([S EXCEPT !.resourceContacts = @ \ hit], Cardinality(hit))

deleteResourceContactsByContactId(S, up, contactId) ==
    IF contactId = 0 THEN Throw(S)
    ELSE IF ~up \/ ~S.rcTable THEN Throw(S)
    ELSE LET hit == {r \in S.resourceContacts : r.contactId = contactId}
         IN  DeletedIfAny([S EXCEPT !.resourceContacts = @ \ hit], Cardinality(hit))

\* the delete-all-by-parent operation named op
deleteAllByParent(S, op, up, id) ==
    CASE op = "deleteServiceNinjaEnvsByProjectId" ->
             deleteServiceNinjaEnvsByProjectId(S, up, id)
      [] op = "deleteServiceNinjaResourcesByEnvId" ->
             deleteServiceNinjaResourcesByEnvId(S, up, id)
      [] op = "deleteServiceNinjaResourcesByProjectId" ->
             deleteServiceNinjaResourcesByProjectId(S, up, id)
      [] op = "deleteResourceContactsByResourceId" ->
             deleteResourceContactsByResourceId(S, up, id)
      [] op = "deleteResourceContactsByContactId" ->
             deleteResourceContactsByContactId(S, up, id)

(***************************************************************************)
(* Tool handlers.  A handler call ends as                                  *)
(*   [store, kind, isError, text, data]                                    *)
(* kind = "envelope": the promise fulfils with {isError, content}; text is *)
(* <<message, detail>> and data the rows or values the content carries.    *)
(* kind = "rejected": the promise rejects (an exception left the handler). *)
(***************************************************************************)
\* the argument object is `undefined` (the request carries no arguments)
Undefined == [undefined |-> TRUE]

IsUndefined(a) == Has(a, "undefined")

\* the object {} that carries no property
EmptyObject == <<>>

Reply(S, isError, msg, detail, data) ==
    [store |-> S, kind |-> "envelope", isError |-> isError,
     text |-> <<msg, detail>>, data |-> data]

Reject(S) ==
    [store |-> S, kind |-> "rejected", isError |-> FALSE,
     text |-> <<"", "">>, data |-> {}]

\* `${a.f}` in a message
Str(a, f) == IF Has(a, f) THEN a[f] ELSE "undefined"

\* project.name.toLowerCase() === name.toLowerCase()
createServiceNinjaProjectTool(S, a, failAt) ==
    IF IsUndefined(a) THEN Reject(S)
    ELSE LET list == getServiceNinjaProjects(S, failAt # 1)
         IN  IF list.thrown THEN Reject(S)
             \* name.toLowerCase() on an undefined name is a TypeError
             ELSE IF list.rows # {} /\ ~Has(a, "name") THEN Reject(S)
             ELSE IF \E r \in list.rows : toLowerCase(r.name) = toLowerCase(a.name)
                  THEN Reply(S, TRUE, "Project already exists", a.name, {})
             ELSE LET c == createServiceNinjaProject(S, failAt # 2, a)
                  IN  IF c.thrown THEN Reject(S)
                      ELSE Reply(c.store, FALSE, "Project created successfully", a.name, {})

readServiceNinjaProjectTool(S, a, failAt) ==
    IF IsUndefined(a) THEN Reject(S)
    ELSE LET g == getServiceNinjaProject(S, failAt # 1, a)
         IN  IF g.thrown THEN Reject(S)
             ELSE IF g.rows = {} THEN Reply(S, TRUE, "Project not found", "", {})
             ELSE Reply(S, FALSE, "Project details retrieved successfully", "", g.rows)

updateServiceNinjaProjectTool(S, a, failAt) ==
    IF IsUndefined(a) THEN Reject(S)
    ELSE LET u == updateServiceNinjaProject(S, failAt # 1, a)
         IN  IF u.thrown THEN Reject(S)
             ELSE Reply(u.store, FALSE, "Project updated successfully", "", {})

deleteServiceNinjaProjectTool(S, a, failAt) ==
    IF IsUndefined(a) THEN Reject(S)
    ELSE LET d == deleteServiceNinjaProject(S, failAt # 1, a)
         IN  IF d.thrown THEN Reject(S)
             ELSE Reply(d.store, FALSE, "Project deleted successfully", "", {})

getProjectToolListTool(S, failAt) ==
    LET list == getServiceNinjaProjects(S, failAt # 1)
    IN  IF list.thrown THEN Reject(S)
        ELSE Reply(S, FALSE, "projects", "", list.rows)

\* env.name.toLowerCase() === name?.toLowerCase()
createServiceNinjaEnvironmentTool(S, a, failAt) ==
    IF IsUndefined(a) THEN Reject(S)
    ELSE LET list == getServiceNinjaEnvs(S, failAt # 1, a)
         IN  IF list.thrown THEN Reject(S)
             ELSE IF Has(a, "name")
                     /\ \E r \in list.rows : toLowerCase(r.name) = toLowerCase(a.name)
                  THEN Reply(S, TRUE, "Environment already exists in this project", a.name, {})
             ELSE LET c == createServiceNinjaEnv(S, failAt # 2, a)
                  IN  IF c.thrown THEN Reject(S)
                      ELSE Reply(c.store, FALSE, "Environment created successfully", a.name, {})

readServiceNinjaEnvironmentTool(S, a, failAt) ==
    IF IsUndefined(a) THEN Reject(S)
    ELSE LET g == getServiceNinjaEnv(S, failAt # 1, a)
         IN  IF g.thrown THEN Reject(S)
             ELSE IF g.rows = {} THEN Reply(S, TRUE, "Environment not found", "", {})
             ELSE Reply(S, FALSE, "environment", "", g.rows)

updateServiceNinjaEnvironmentTool(S, a, failAt) ==
    IF IsUndefined(a) THEN Reject(S)
    ELSE LET u == updateServiceNinjaEnv(S, failAt # 1, a)
         IN  IF u.thrown THEN Reject(S)
             ELSE Reply(u.store, FALSE, "Environment updated successfully", "", {})

deleteServiceNinjaEnvironmentTool(S, a, failAt) ==
    IF IsUndefined(a) THEN Reject(S)
    ELSE LET d == deleteServiceNinjaEnv(S, failAt # 1, a)
         IN  IF d.thrown THEN Reject(S)
             ELSE Reply(d.store, FALSE, "Environment deleted successfully", "", {})

\* p carries the optional projectId the controller read with args?.projectId
getEnvironmentToolListTool(S, p, failAt) ==
    LET list == getServiceNinjaEnvs(S, failAt # 1, p)
    IN  IF list.thrown THEN Reject(S)
        ELSE Reply(S, FALSE, "environments", "", list.rows)

\* a faulty create_resource that inserts without looking for the name; the
\* rejection of duplicates (C4) must tell it from the real one
createServiceNinjaResourceToolUnchecked(S, a, failAt) ==
    LET c == createServiceNinjaResource(S, failAt # 2, a)
    IN  IF c.thrown THEN Reject(S)
        ELSE Reply(c.store, FALSE, "Resource created successfully", a.name, {})

\* resource.name.toLowerCase() === name?.toLowerCase()
createServiceNinjaResourceTool(S, a, failAt) ==
    IF IsUndefined(a) THEN Reject(S)
    ELSE LET list == getServiceNinjaResources(S, failAt # 1, a)
         IN  IF list.thrown THEN Reject(S)
             ELSE IF Has(a, "name")
                     /\ \E r \in list.rows : toLowerCase(r.name) = toLowerCase(a.name)
                  THEN Reply(S, TRUE, "Resource already exists in this environment", a.name, {})
             ELSE LET c == createServiceNinjaResource(S, failAt # 2, a)
                  IN  IF c.thrown THEN Reject(S)
                      ELSE Reply(c.store, FALSE, "Resource created successfully", a.name, {})

readServiceNinjaResourceTool(S, a, failAt) ==
    IF IsUndefined(a) THEN Reject(S)
    ELSE LET g == getServiceNinjaResource(S, failAt # 1, a)
         IN  IF g.thrown THEN Reject(S)
             ELSE IF g.rows = {} THEN Reply(S, TRUE, "Resource not found", "", {})
             ELSE Reply(S, FALSE, "Resource details retrieved successfully", "", g.rows)

updateServiceNinjaResourceTool(S, a, failAt) ==
    IF IsUndefined(a) THEN Reject(S)
    ELSE LET u == updateServiceNinjaResource(S, failAt # 1, a)
         IN  IF u.thrown THEN Reject(S)
             ELSE IF u.changes > 0
                  THEN Reply(u.store, FALSE, "Resource updated successfully", "", {})
                  ELSE Reply(u.store, FALSE, "Failed to update resource", "", {})

deleteServiceNinjaResourceTool(S, a, failAt) ==
    IF IsUndefined(a) THEN Reject(S)
    ELSE LET d == deleteServiceNinjaResource(S, failAt # 1, a)
         IN  IF d.thrown THEN Reject(S)
             ELSE Reply(d.store, FALSE, "Resource deleted successfully", "", {})

\* p carries the optional projectId and envId read with args?.projectId, args?.envId
getResourceToolListTool(S, p, failAt) ==
    LET list == getServiceNinjaResources(S, failAt # 1, p)
    IN  IF list.thrown THEN Reject(S)
        ELSE Reply(S, FALSE, "Resource list retrieved successfully", "", list.rows)

(***************************************************************************)
(* Tool handlers: contacts.                                                *)
(***************************************************************************)
createServiceNinjaContactTool(S, a, failAt) ==
    IF IsUndefined(a) THEN Reject(S)
    ELSE IF ~TruthyS(a, "firstName") \/ ~TruthyS(a, "lastName") \/ ~TruthyS(a, "email")
         THEN Reply(S, TRUE, "First name, last name, and email are required", "", {})
    ELSE IF ~emailRegexTest(a.email) THEN Reply(S, TRUE, "Invalid email format", "", {})
    ELSE LET existing == getServiceNinjaContact(S, failAt # 1, [email |-> a.email])
         IN  IF existing.thrown THEN Reject(S)
             ELSE IF existing.rows # {}
                  THEN Reply(S, TRUE, "Contact already exists", a.email, {})
             ELSE LET c == createServiceNinjaContact(S, failAt # 2, a)
                  IN  IF c.thrown THEN Reply(S, TRUE, "Failed to create contact", "", {})
                      ELSE Reply(c.store, FALSE, "Contact created successfully", a.email, {})

readServiceNinjaContactTool(S, a, failAt) ==
    IF IsUndefined(a) THEN Reject(S)
    ELSE IF ~TruthyS(a, "email") /\ ~TruthyN(a, "id")
         THEN Reply(S, TRUE, "Either email or ID is required", "", {})
    ELSE LET g == getServiceNinjaContact(S, failAt # 1, a)
         IN  IF g.thrown THEN Reply(S, TRUE, "Failed to retrieve contact", "", {})
             ELSE IF g.rows = {} THEN Reply(S, TRUE, "No contact found", "", {})
             ELSE Reply(S, FALSE, "contact", "", g.rows)

getContactToolListTool(S, failAt) ==
    LET list == getServiceNinjaContacts(S, failAt # 1)
    IN  IF list.thrown THEN Reply(S, TRUE, "Failed to retrieve contacts", "", {})
        ELSE IF list.rows = {} THEN Reply(S, FALSE, "No contacts found", "", {})
        ELSE Reply(S, FALSE, "contacts", "", list.rows)

searchServiceNinjaContactsTool(S, a, failAt) ==
    IF IsUndefined(a) THEN Reject(S)
    ELSE IF ~Has(a, "searchTerm") \/ Blank(a.searchTerm)
         THEN Reply(S, TRUE, "Search term is required.", "", {})
    ELSE LET found == searchServiceNinjaContacts(S, failAt # 1, a.searchTerm)
         IN  IF found.thrown THEN Reply(S, TRUE, "Failed to search contacts", "", {})
             ELSE IF found.rows = {}
                  THEN Reply(S, FALSE, "No contacts found matching", a.searchTerm, {})
             ELSE Reply(S, FALSE, "contacts", "", found.rows)

updateServiceNinjaContactTool(S, a, failAt) ==
    IF IsUndefined(a) THEN Reject(S)
    ELSE IF ~TruthyN(a, "id") THEN Reply(S, TRUE, "Contact ID is required", "", {})
    ELSE LET existing == getServiceNinjaContact(S, failAt # 1, [id |-> a.id])
             byEmail  == getServiceNinjaContact(S, failAt # 2, [email |-> a.email])
             u == updateServiceNinjaContact(
                      S, failAt # (IF TruthyS(a, "email") THEN 3 ELSE 2), a)
         IN  IF existing.thrown THEN Reject(S)
             ELSE IF existing.rows = {} THEN Reply(S, TRUE, "No contact found", "", {})
             ELSE IF TruthyS(a, "email") /\ ~emailRegexTest(a.email)
                  THEN Reply(S, TRUE, "Invalid email format", "", {})
             ELSE IF TruthyS(a, "email") /\ byEmail.thrown THEN Reject(S)
             \* contactWithEmail && contactWithEmail.id !== id
             ELSE IF TruthyS(a, "email") /\ \E r \in byEmail.rows : r.id # a.id
                  THEN Reply(S, TRUE, "Email is already used by another contact", a.email, {})
             ELSE IF u.thrown THEN Reply(S, TRUE, "Failed to update contact", "thrown", {})
             ELSE IF u.changes = 0 THEN Reply(S, TRUE, "Failed to update contact", "", {})
             ELSE Reply(u.store, FALSE, "Contact updated successfully", "", {})

deleteServiceNinjaContactTool(S, a, failAt) ==
    IF IsUndefined(a) THEN Reject(S)
    ELSE IF ~TruthyN(a, "id") THEN Reply(S, TRUE, "Contact ID is required", "", {})
    ELSE LET existing == getServiceNinjaContact(S, failAt # 1, [id |-> a.id])
             d == deleteServiceNinjaContact(S, failAt # 2, a)
         IN  IF existing.thrown THEN Reject(S)
             ELSE IF existing.rows = {} THEN Reply(S, TRUE, "No contact found", "", {})
             ELSE IF d.thrown THEN Reply(S, TRUE, "Failed to delete contact", "thrown", {})
             ELSE IF d.changes = 0 THEN Reply(S, TRUE, "Failed to delete contact", "", {})
             ELSE Reply(d.store, FALSE, "Contact deleted successfully", "", {})

(***************************************************************************)
(* Tool handlers: resource-contact associations.                           *)
(***************************************************************************)
createServiceNinjaResourceContactTool(S, a, failAt) ==
    IF IsUndefined(a) THEN Reject(S)
    ELSE IF ~TruthyN(a, "resourceId") \/ ~TruthyN(a, "contactId") \/ ~TruthyS(a, "role")
         THEN Reply(S, TRUE, "Resource ID, Contact ID, and role are required", "", {})
    ELSE LET existing == getResourceContact(S, failAt # 1, a)
             c == createResourceContact(S, failAt # 2, failAt # 3, a)
         IN  IF existing.thrown THEN Reject(S)
             ELSE IF existing.rows # {}
                  THEN Reply(S, TRUE, "Resource-contact association already exists with role",
                             (CHOOSE r \in existing.rows : TRUE).role, {})
             ELSE IF c.thrown
                  THEN Reply(S, TRUE, "Failed to create resource-contact association", "", {})
             ELSE Reply(c.store, FALSE,
                        "Resource-contact association created successfully with role",
                        a.role, {})

readServiceNinjaResourceContactTool(S, a, failAt) ==
    IF IsUndefined(a) THEN Reject(S)
    ELSE IF ~TruthyN(a, "resourceId") \/ ~TruthyN(a, "contactId")
         THEN Reply(S, TRUE, "Both Resource ID and Contact ID are required", "", {})
    ELSE LET g == getResourceContact(S, failAt # 1, a)
         IN  IF g.thrown
             THEN Reply(S, TRUE, "Failed to retrieve resource-contact association", "", {})
             ELSE IF g.rows = {}
                  THEN Reply(S, TRUE, "No resource-contact association found", "", {})
             ELSE Reply(S, FALSE, "association", "", g.rows)

updateServiceNinjaResourceContactTool(S, a, failAt) ==
    IF IsUndefined(a) THEN Reject(S)
    ELSE IF ~TruthyN(a, "resourceId") \/ ~TruthyN(a, "contactId") \/ ~TruthyS(a, "role")
         THEN Reply(S, TRUE, "Resource ID, Contact ID, and role are required", "", {})
    ELSE LET existing == getResourceContact(S, failAt # 1, a)
             u == updateResourceContact(S, failAt # 2, a)
         IN  IF existing.thrown \/ (existing.rows # {} /\ u.thrown)
             THEN Reply(S, TRUE, "Failed to update resource-contact association", "thrown", {})
             ELSE IF existing.rows = {}
                  THEN Reply(S, TRUE, "No resource-contact association found", "", {})
             ELSE IF u.changes = 0
                  THEN Reply(S, TRUE, "Failed to update resource-contact association", "", {})
             ELSE Reply(u.store, FALSE,
                        "Resource-contact association updated successfully", a.role, {})

deleteServiceNinjaResourceContactTool(S, a, failAt) ==
    IF IsUndefined(a) THEN Reject(S)
    ELSE IF ~TruthyN(a, "resourceId") \/ ~TruthyN(a, "contactId")
         THEN Reply(S, TRUE, "Both Resource ID and Contact ID are required", "", {})
    ELSE LET existing == getResourceContact(S, failAt # 1, a)
             d == deleteResourceContact(S, failAt # 2, a)
         IN  IF existing.thrown \/ (existing.rows # {} /\ d.thrown)
             THEN Reply(S, TRUE, "Failed to delete resource-contact association", "thrown", {})
             ELSE IF existing.rows = {}
                  THEN Reply(S, TRUE, "No resource-contact association found", "", {})
             ELSE IF d.changes = 0
                  THEN Reply(S, TRUE, "Failed to delete resource-contact association", "", {})
             ELSE Reply(d.store, FALSE,
                        "Resource-contact association deleted successfully", "", {})

(***************************************************************************)
(* Tool handlers: monitoring.  net[id] is what the endpoint of resource id *)
(* answers to a GET: "200", "500" or "down" (no response).  axios.get      *)
(* rejects unless the status is 2xx.                                       *)
(***************************************************************************)
\* a faulty truthiness test that takes NULL for a URL; the answer for a
\* resource without healthCheckUrl (C16) must tell it from the real one
ColNeverNull(v) == TRUE

\* a TEXT column read back as a JavaScript value is truthy
ColTruthy(v) == v # Null /\ v # ""

\* JSON.parse(s) returns (does not throw) on the strings the model uses
JSONparses(s) == s \in {"{\"k\":\"v\"}"}

\* a faulty decoder that accepts any stored headers string; the entry of a
\* resource with malformed headers (C19) must tell it from the real one
HeadersAlwaysDecode(r) == TRUE

\* headers ? JSON.parse(headers) : {} does not throw
HeadersDecode(r) == ColTruthy(r.headers) => JSONparses(r.headers)

\* { id: resourceId }
IdOf(a) == IF Has(a, "resourceId") THEN [id |-> a.resourceId] ELSE EmptyObject

getResourceHealthStatusTool(S, a, failAt, net) ==
    IF IsUndefined(a) THEN Reject(S)
    ELSE LET g == getServiceNinjaResource(S, failAt # 1, IdOf(a))
             r == CHOOSE x \in g.rows : TRUE
         IN  IF g.thrown
             THEN Reply(S, TRUE, "Failed to get resource health status", "", {})
             ELSE IF g.rows = {} THEN Reply(S, TRUE, "Resource not found", "", {})
             ELSE IF ~ColTruthy(r.healthCheckUrl)
                  THEN Reply(S, TRUE, "No health check URL configured for resource", r.name, {})
             ELSE IF ~HeadersDecode(r) \/ net[r.id] # "200"
                  THEN Reply(S, TRUE, "Failed to get resource health status", "", {})
             ELSE Reply(S, FALSE, "health", r.name, {[body |-> net[r.id]]})

\* one entry of healthResults
HealthEntry(r, net) ==
    [resourceId |-> r.id, resourceName |-> r.name,
     status |-> IF ~ColTruthy(r.healthCheckUrl) THEN "no_health_check"
                ELSE IF HeadersDecode(r) /\ net[r.id] = "200" THEN "healthy"
                ELSE "unhealthy"]

getProjectResourcesHealthStatusTool(S, a, failAt, net) ==
    IF IsUndefined(a) THEN Reject(S)
    ELSE LET list == getServiceNinjaResources(S, failAt # 1, a)
         IN  IF list.thrown
             THEN Reply(S, TRUE, "Failed to get project resources health status", "", {})
             ELSE Reply(S, FALSE, "healthResults", "", {HealthEntry(r, net) : r \in list.rows})

\* a faulty liveness probe whose catch block answers isError true; the
\* answer to an endpoint that is down (C17) must tell it from the real one
getResourceAliveStatusToolStrict(S, a, failAt, net) ==
    IF IsUndefined(a) THEN Reject(S)
    ELSE LET g == getServiceNinjaResource(S, failAt # 1, IdOf(a))
             r == CHOOSE x \in g.rows : TRUE
         IN  IF g.thrown \/ g.rows = {} THEN Reply(S, TRUE, "Resource not found", "", {})
             ELSE IF ~ColTruthy(r.aliveCheckUrl)
                  THEN Reply(S, TRUE, "No alive check URL configured for resource", r.name, {})
             ELSE Reply(S, ~HeadersDecode(r) \/ net[r.id] # "200", "alive", r.name,
                        {[alive |-> HeadersDecode(r) /\ net[r.id] = "200"]})

getResourceAliveStatusTool(S, a, failAt, net) ==
    IF IsUndefined(a) THEN Reject(S)
    ELSE IF ~TruthyN(a, "resourceId") THEN Reply(S, TRUE, "Resource ID is required", "", {})
    ELSE LET g == getServiceNinjaResource(S, failAt # 1, IdOf(a))
             r == CHOOSE x \in g.rows : TRUE
         IN  \* the catch block answers every exception with alive: false
             IF g.thrown
             THEN Reply(S, FALSE, "alive", "", {[alive |-> FALSE]})
             ELSE IF g.rows = {} THEN Reply(S, TRUE, "Resource not found", "", {})
             ELSE IF ~ColTruthy(r.aliveCheckUrl)
                  THEN Reply(S, TRUE, "No alive check URL configured for resource", r.name, {})
             ELSE IF ~HeadersDecode(r) \/ net[r.id] # "200"
                  THEN Reply(S, FALSE, "alive", r.name, {[alive |-> FALSE]})
             ELSE Reply(S, FALSE, "alive", r.name, {[alive |-> TRUE]})

(***************************************************************************)
(* The tool catalogue: names and input schemas.                            *)
(***************************************************************************)
projectToolNames ==
    {"create_project", "list_projects", "update_project", "delete_project",
     "get_project_by_name", "get_project_by_id"}

environmentToolNames ==
    {"create_environment", "list_environments", "get_environment_by_id",
     "get_environment_by_name", "update_environment", "delete_environment"}

resourceToolNames ==
    {"create_resource", "list_resources", "get_resource_by_id",
     "get_resource_by_name", "update_resource", "delete_resource"}

resourceMonitoringToolNames ==
    {"get_resource_health_status", "get_project_resources_health_status",
     "get_resource_alive_status"}

contactToolNames ==
    {"create_contact", "list_contacts", "get_contact_by_id", "get_contact_by_email",
     "update_contact", "delete_contact", "search_contacts",
     "create_resource_contact", "list_resource_contacts", "get_resource_contact_by_ids",
     "update_resource_contact", "delete_resource_contact"}

\* tools: [...] of ToolsListingController
ToolsListingController ==
    projectToolNames \cup environmentToolNames \cup resourceToolNames
        \cup resourceMonitoringToolNames

\* the names of toolSchemaList, the catalogue initializeServer registers
toolSchemaList ==
    contactToolNames \cup environmentToolNames \cup projectToolNames
        \cup resourceMonitoringToolNames \cup resourceToolNames

\* required: [...] of the tool's inputSchema
Required(name) ==
    CASE name = "create_project" -> {"name", "description"}
      [] name \in {"get_project_by_name", "get_environment_by_name",
                   "get_resource_by_name"} -> {"name"}
      [] name \in {"update_project", "delete_project", "get_project_by_id",
                   "get_environment_by_id", "update_environment", "delete_environment",
                   "get_resource_by_id", "update_resource", "delete_resource",
                   "get_contact_by_id", "update_contact", "delete_contact"} -> {"id"}
      [] name = "create_environment" -> {"name", "projectId"}
      [] name = "create_resource" -> {"name", "description", "type", "projectId", "envId"}
      [] name \in {"get_resource_health_status", "get_resource_alive_status"} -> {"resourceId"}
      [] name = "get_project_resources_health_status" -> {"projectId", "envId"}
      [] name = "create_contact" -> {"firstName", "lastName", "email"}
      [] name = "get_contact_by_email" -> {"email"}
      [] name = "search_contacts" -> {"searchTerm"}
      [] name \in {"create_resource_contact", "update_resource_contact"} ->
             {"resourceId", "contactId", "role"}
      [] name \in {"get_resource_contact_by_ids", "delete_resource_contact"} ->
             {"resourceId", "contactId"}
      [] OTHER -> {}

\* the number properties declared with minimum: 1
MinimumOne(name) ==
    IF name \in resourceMonitoringToolNames THEN {}
    ELSE {"id", "projectId", "envId", "resourceId", "contactId"}

\* the string properties declared with minLength: 1
MinLengthOne(name) ==
    IF name \in environmentToolNames THEN {"name"}
    ELSE {"name", "description", "type", "firstName", "lastName", "role", "searchTerm"}

\* the arguments satisfy the tool's inputSchema (the model draws every
\* property with its declared type and below its maxLength)
inputSchemaAccepts(name, a) ==
    /\ ~IsUndefined(a)
    /\ Required(name) \subseteq DOMAIN a
    /\ \A f \in DOMAIN a \cap MinimumOne(name) : a[f] >= 1
    /\ \A f \in DOMAIN a \cap MinLengthOne(name) : a[f] # ""
    /\ Has(a, "email") => emailRegexTest(a.email)

(***************************************************************************)
(* Dispatch.  A request body is a JavaScript value [type, value]; the      *)
(* value of an object is the record of its properties.                     *)
(***************************************************************************)
JsNull == [type |-> "null"]

JsString(v) == [type |-> "string", value |-> v]

JsNumber(v) == [type |-> "number", value |-> v]

JsObject(o) == [type |-> "object", value |-> o]

\* !v
Falsy(v) ==
    \/ v.type = "null"
    \/ v.type = "string" /\ v.value = ""
    \/ v.type = "number" /\ v.value = 0

JsUndefined == [type |-> "undefined"]

\* if (v) for a positional parameter that may have been left out
Given(v) == v.type # "undefined" /\ ~Falsy(v)

(***************************************************************************)
(* The association list.  Its handler takes positional parameters          *)
(* (resourceId?, contactId?), held here as JavaScript values: the tool     *)
(* registered with the MCP server is called with the argument object in    *)
(* the first of them.  An object bound to `?` equals no INTEGER column.    *)
(***************************************************************************)
\* WHERE col = ? with the value v bound
Bound(v, n) == v.type = "number" /\ v.value = n

getResourceContacts(S, up) ==
    IF ~up \/ ~S.rcTable THEN Throw(S) ELSE Ret(S, S.resourceContacts, 0)

getResourceContactsByResourceId(S, up, resourceId) ==
    IF ~Given(resourceId) THEN Throw(S)
    ELSE IF ~up \/ ~S.rcTable THEN Throw(S)
    ELSE Ret(S, {r \in S.resourceContacts : Bound(resourceId, r.resourceId)}, 0)

getResourceContactsByContactId(S, up, contactId) ==
    IF ~Given(contactId) THEN Throw(S)
    ELSE IF ~up \/ ~S.rcTable THEN Throw(S)
    ELSE Ret(S, {r \in S.resourceContacts : Bound(contactId, r.contactId)}, 0)

\* rc JOIN resource r ON rc.resourceId = r.id JOIN contact c ON rc.contactId = c.id
getResourceContactsWithDetails(S, up, resourceId) ==
    IF ~up \/ ~S.rcTable THEN Throw(S)
    ELSE Ret(S, {[resourceId |-> rc.resourceId, contactId |-> rc.contactId,
                  role |-> rc.role, resourceName |-> r.name,
                  resourceDescription |-> r.description, resourceType |-> r.type,
                  firstName |-> c.firstName, lastName |-> c.lastName,
                  email |-> c.email, phone |-> c.phone] :
                     <<rc, r, c>> \in
                        {t \in S.resourceContacts \X S.resources \X S.contacts :
                            /\ t[1].resourceId = t[2].id
                            /\ t[1].contactId = t[3].id
                            /\ Given(resourceId) => Bound(resourceId, t[1].resourceId)}},
             0)

getResourceContactToolListTool(S, resourceId, contactId, failAt) ==
    LET found ==
            IF Given(resourceId)
            THEN getResourceContactsByResourceId(S, failAt # 1, resourceId)
            ELSE IF Given(contactId)
                 THEN getResourceContactsByContactId(S, failAt # 1, contactId)
                 ELSE getResourceContacts(S, failAt # 1)
        detailedContacts == getResourceContactsWithDetails(S, failAt # 2, resourceId)
    IN  IF found.thrown
        THEN Reply(S, TRUE, "Failed to retrieve resource-contact associations", "", {})
        ELSE IF found.rows = {}
             THEN Reply(S, FALSE, "No resource-contact associations found.", "", {})
        ELSE IF detailedContacts.thrown
             THEN Reply(S, TRUE, "Failed to retrieve resource-contact associations", "", {})
        ELSE Reply(S, FALSE, "detailedContacts", "", detailedContacts.rows)

\* { name, arguments }
ToolBody(name, a) == JsObject([name |-> JsString(name), arguments |-> a])

\* the properties of a that the caller reads with a?.k
Pick(a, keys) == [k \in (DOMAIN a \cap keys) |-> a[k]]

\* what a handler call ended as, with the handler that ran
Out(h, o) ==
    [store |-> o.store, kind |-> o.kind, isError |-> o.isError,
     text |-> o.text, data |-> o.data, handler |-> h]

\* the functionName the catalogue binds to a tool name
functionName(name) ==
    CASE name = "create_project" -> "createServiceNinjaProjectTool"
      [] name \in {"get_project_by_id", "get_project_by_name"} -> "readServiceNinjaProjectTool"
      [] name = "update_project" -> "updateServiceNinjaProjectTool"
      [] name = "delete_project" -> "deleteServiceNinjaProjectTool"
      [] name = "create_environment" -> "createServiceNinjaEnvironmentTool"
      [] name \in {"get_environment_by_id", "get_environment_by_name"} ->
             "readServiceNinjaEnvironmentTool"
      [] name = "update_environment" -> "updateServiceNinjaEnvironmentTool"
      [] name = "delete_environment" -> "deleteServiceNinjaEnvironmentTool"
      [] name = "create_contact" -> "createServiceNinjaContactTool"
      [] name \in {"get_contact_by_id", "get_contact_by_email"} -> "readServiceNinjaContactTool"
      [] name = "list_contacts" -> "getContactToolListTool"
      [] name = "search_contacts" -> "searchServiceNinjaContactsTool"
      [] name = "update_contact" -> "updateServiceNinjaContactTool"
      [] name = "delete_contact" -> "deleteServiceNinjaContactTool"
      [] name = "create_resource_contact" -> "createServiceNinjaResourceContactTool"
      [] name = "get_resource_contact_by_ids" -> "readServiceNinjaResourceContactTool"
      [] name = "list_resource_contacts" -> "getResourceContactToolListTool"
      [] name = "update_resource_contact" -> "updateServiceNinjaResourceContactTool"
      [] name = "delete_resource_contact" -> "deleteServiceNinjaResourceContactTool"
      [] name = "get_resource_health_status" -> "getResourceHealthStatusTool"
      [] name = "get_project_resources_health_status" -> "getProjectResourcesHealthStatusTool"
      [] name = "get_resource_alive_status" -> "getResourceAliveStatusTool"
      [] OTHER -> ""

\* toolModule[functionName](args)
getToolFunctionByName(S, fn, a, failAt, net) ==
    CASE fn = "createServiceNinjaProjectTool" -> createServiceNinjaProjectTool(S, a, failAt)
      [] fn = "readServiceNinjaProjectTool" -> readServiceNinjaProjectTool(S, a, failAt)
      [] fn = "updateServiceNinjaProjectTool" -> updateServiceNinjaProjectTool(S, a, failAt)
      [] fn = "deleteServiceNinjaProjectTool" -> deleteServiceNinjaProjectTool(S, a, failAt)
      [] fn = "createServiceNinjaEnvironmentTool" -> createServiceNinjaEnvironmentTool(S, a, failAt)
      [] fn = "readServiceNinjaEnvironmentTool" -> readServiceNinjaEnvironmentTool(S, a, failAt)
      [] fn = "updateServiceNinjaEnvironmentTool" -> updateServiceNinjaEnvironmentTool(S, a, failAt)
      [] fn = "deleteServiceNinjaEnvironmentTool" -> deleteServiceNinjaEnvironmentTool(S, a, failAt)
      [] fn = "createServiceNinjaContactTool" -> createServiceNinjaContactTool(S, a, failAt)
      [] fn = "readServiceNinjaContactTool" -> readServiceNinjaContactTool(S, a, failAt)
      [] fn = "getContactToolListTool" -> getContactToolListTool(S, failAt)
      [] fn = "searchServiceNinjaContactsTool" -> searchServiceNinjaContactsTool(S, a, failAt)
      [] fn = "updateServiceNinjaContactTool" -> updateServiceNinjaContactTool(S, a, failAt)
      [] fn = "deleteServiceNinjaContactTool" -> deleteServiceNinjaContactTool(S, a, failAt)
      [] fn = "createServiceNinjaResourceContactTool" ->
             createServiceNinjaResourceContactTool(S, a, failAt)
      [] fn = "readServiceNinjaResourceContactTool" ->
             readServiceNinjaResourceContactTool(S, a, failAt)
      \* toolFunction(args, extra): both land in the positional parameters
      [] fn = "getResourceContactToolListTool" ->
             getResourceContactToolListTool(S, JsObject(a), JsObject(EmptyObject), failAt)
      [] fn = "updateServiceNinjaResourceContactTool" ->
             updateServiceNinjaResourceContactTool(S, a, failAt)
      [] fn = "deleteServiceNinjaResourceContactTool" ->
             deleteServiceNinjaResourceContactTool(S, a, failAt)
      [] fn = "getResourceHealthStatusTool" -> getResourceHealthStatusTool(S, a, failAt, net)
      [] fn = "getProjectResourcesHealthStatusTool" ->
             getProjectResourcesHealthStatusTool(S, a, failAt, net)
      [] fn = "getResourceAliveStatusTool" -> getResourceAliveStatusTool(S, a, failAt, net)

\* the tool registered with the MCP server under `name`, called with args
initializeServer(S, name, a, failAt, net) ==
    Out(functionName(name), getToolFunctionByName(S, functionName(name), a, failAt, net))

\* the names the switch of ToolCallController routes
RoutedNames ==
    projectToolNames \cup environmentToolNames \cup resourceToolNames
        \cup resourceMonitoringToolNames

\* `return handler(args)` without await: the handler's promise, fulfilled
\* or rejected, is what the controller's own promise settles to
ReturnPromise(h, o) == Out(h, o)

\* a faulty default: that throws on a name it does not know; the answer to
\* unrouted names (C3) must tell it from the real one
UnknownToolThrows(S, name) == Out("none", Reject(S))

\* default: of the switch: isError true, text `Unknown tool: ${name}`
UnknownTool(S, name) == Out("none", Reply(S, TRUE, "Unknown tool", name, {}))

\* a faulty switch whose routing depends on what is stored: it knows
\* create_project only while no project exists; the constancy of the
\* routing (C28) must tell it from the real one
RouteUntilStored(S, name, a, failAt, net) ==
    IF name = "create_project" /\ S.projects = {}
    THEN ReturnPromise("createServiceNinjaProjectTool",
                       createServiceNinjaProjectTool(S, a, failAt))
    ELSE UnknownTool(S, name)

\* the switch (name) of ToolCallController
Route(S, name, a, failAt, net) ==
    CASE name = "list_projects" ->
             ReturnPromise("getProjectToolListTool", getProjectToolListTool(S, failAt))
      [] name = "list_environments" ->
             ReturnPromise("getEnvironmentToolListTool",
                           getEnvironmentToolListTool(S, Pick(a, {"projectId"}), failAt))
      [] name = "create_resource" ->
             ReturnPromise("createServiceNinjaResourceTool",
                           createServiceNinjaResourceTool(S, a, failAt))
      [] name = "list_resources" ->
             ReturnPromise("getResourceToolListTool",
                           getResourceToolListTool(S, Pick(a, {"projectId", "envId"}), failAt))
      [] name \in {"get_resource_by_id", "get_resource_by_name"} ->
             ReturnPromise("readServiceNinjaResourceTool",
                           readServiceNinjaResourceTool(S, a, failAt))
      [] name = "update_resource" ->
             ReturnPromise("updateServiceNinjaResourceTool",
                           updateServiceNinjaResourceTool(S, a, failAt))
      [] name = "delete_resource" ->
             ReturnPromise("deleteServiceNinjaResourceTool",
                           deleteServiceNinjaResourceTool(S, a, failAt))
      [] name \in RoutedNames \ (resourceToolNames \cup {"list_projects", "list_environments"}) ->
             ReturnPromise(functionName(name),
                           getToolFunctionByName(S, functionName(name), a, failAt, net))
      [] OTHER -> UnknownTool(S, name)

ToolCallController(S, body, failAt, net) ==
    IF Falsy(body) \/ body.type # "object"
    THEN Out("none", Reply(S, TRUE, "Invalid request body", "", {}))
    ELSE LET o == body.value
         IN  IF ~Has(o, "name") \/ Falsy(o.name) \/ o.name.type # "string"
             THEN Out("none", Reply(S, TRUE, "Missing or invalid tool name", "", {}))
             ELSE Route(S, o.name.value,
                        IF Has(o, "arguments") THEN o.arguments ELSE Undefined,
                        failAt, net)

(***************************************************************************)
(* The server.  A request reaches a handler through ToolCallController     *)
(* (the tools/call route) or through the tool registered with the MCP      *)
(* server; the step is the whole call.                                     *)
(***************************************************************************)
\* no endpoint answers
NoNet == [i \in 1..MaxId |-> "down"]

NoCall ==
    [via |-> "none", name |-> "", args |-> Undefined, body |-> JsNull,
     failAt |-> 0, net |-> NoNet]

NoResult ==
    [kind |-> "envelope", isError |-> FALSE, text |-> <<"", "">>, data |-> {},
     handler |-> "none"]

\* the requests the server can have in flight at once
Slots == {1, 2}

\* no handler runs in the slot
Idle ==
    [pc |-> "idle", name |-> "", args |-> Undefined, net |-> NoNet,
     pending |-> <<>>, entries |-> {}]

\* the tables the statements of getOrCreateSqlLite create
createTables ==
    {"service-ninja-project", "service-ninja-env", "service-ninja-resource",
     "service-ninja-contact"}

\* the process before its first getOrCreateSqlLite: `let db: Database` is
\* undefined, no Database was constructed and no statement has run; made
\* is the set of tables the statements have created in mcp.sqlite
Unopened == [db |-> 0, opened |-> 0, ddl |-> 0, made |-> {}, returned |-> {}]

\* the process after one getOrCreateSqlLite ran alone
Opened == [db |-> 1, opened |-> 1, ddl |-> 1, made |-> createTables, returned |-> {1}]

\* a fresh mcp.sqlite, or one in which the association table was created
\* by hand (getOrCreateSqlLite never creates it)
Init ==
    /\ projects = {}
    /\ envs = {}
    /\ resources = {}
    /\ contacts = {}
    /\ resourceContacts = {}
    /\ rcTable \in BOOLEAN
    /\ call = NoCall
    /\ result = NoResult
    /\ running = [p \in Slots |-> Idle]
    /\ sqlite = Opened

\* every rowid of the store is within the bound of the model
WithinBound(S) ==
    /\ \A r \in S.projects \cup S.envs \cup S.resources \cup S.contacts : r.id <= MaxId
    /\ \A r \in S.resourceContacts : r.rowid <= MaxId

\* the step of one call that ended as `out`
Settle(c, out) ==
    /\ projects' = out.store.projects
    /\ envs' = out.store.envs
    /\ resources' = out.store.resources
    /\ contacts' = out.store.contacts
    /\ resourceContacts' = out.store.resourceContacts
    /\ rcTable' = out.store.rcTable
    /\ call' = c
    /\ result' = [kind |-> out.kind, isError |-> out.isError, text |-> out.text,
                  data |-> out.data, handler |-> out.handler]
    /\ running' = running
    /\ sqlite' = sqlite

\* what tools/call answers to { name, arguments } in the current store
Answer(name, a, failAt, net) == ToolCallController(Store, ToolBody(name, a), failAt, net)

\* what the registered tool `name` answers in the current store
Registered(name, a, failAt, net) == initializeServer(Store, name, a, failAt, net)

\* POST tools/call with body { name, arguments }
ToolsCall(name, a, failAt, net) ==
    Settle([via |-> "tools/call", name |-> name, args |-> a, body |-> ToolBody(name, a),
            failAt |-> failAt, net |-> net],
           Answer(name, a, failAt, net))

\* POST tools/call with a body that names no tool
ToolsCallRaw(body) ==
    Settle([via |-> "tools/call", name |-> "", args |-> Undefined, body |-> body,
            failAt |-> 0, net |-> NoNet],
           ToolCallController(Store, body, 0, NoNet))

\* the registered tool `name` called by the MCP server
RegisteredCall(name, a, failAt, net) ==
    Settle([via |-> "mcp", name |-> name, args |-> a, body |-> ToolBody(name, a),
            failAt |-> failAt, net |-> net],
           Registered(name, a, failAt, net))

(***************************************************************************)
(* One action per tool.  A is the set of argument objects the caller may   *)
(* send and F the set of store failures (failAt) that may strike the call. *)
(* A call that would take a rowid beyond MaxId is outside the model.       *)
(***************************************************************************)
create_project(A, F) ==
    \E a \in A, f \in F :
        /\ WithinBound(Answer("create_project", a, f, NoNet).store)
        /\ ToolsCall("create_project", a, f, NoNet)

update_project(A, F) ==
    \E a \in A, f \in F :
        /\ WithinBound(Answer("update_project", a, f, NoNet).store)
        /\ ToolsCall("update_project", a, f, NoNet)

delete_project(A, F) ==
    \E a \in A, f \in F :
        /\ WithinBound(Answer("delete_project", a, f, NoNet).store)
        /\ ToolsCall("delete_project", a, f, NoNet)

get_project_by_id(A, F) ==
    \E a \in A, f \in F :
        /\ WithinBound(Answer("get_project_by_id", a, f, NoNet).store)
        /\ ToolsCall("get_project_by_id", a, f, NoNet)

get_resource_health_status(A, F, N) ==
    \E a \in A, f \in F, n \in N :
        /\ WithinBound(Answer("get_resource_health_status", a, f, n).store)
        /\ ToolsCall("get_resource_health_status", a, f, n)

get_project_resources_health_status(A, F, N) ==
    \E a \in A, f \in F, n \in N :
        /\ WithinBound(Answer("get_project_resources_health_status", a, f, n).store)
        /\ ToolsCall("get_project_resources_health_status", a, f, n)

get_resource_alive_status(A, F, N) ==
    \E a \in A, f \in F, n \in N :
        /\ WithinBound(Answer("get_resource_alive_status", a, f, n).store)
        /\ ToolsCall("get_resource_alive_status", a, f, n)

list_projects(A, F) ==
    \E a \in A, f \in F :
        /\ WithinBound(Answer("list_projects", a, f, NoNet).store)
        /\ ToolsCall("list_projects", a, f, NoNet)

list_environments(A, F) ==
    \E a \in A, f \in F :
        /\ WithinBound(Answer("list_environments", a, f, NoNet).store)
        /\ ToolsCall("list_environments", a, f, NoNet)

list_resources(A, F) ==
    \E a \in A, f \in F :
        /\ WithinBound(Answer("list_resources", a, f, NoNet).store)
        /\ ToolsCall("list_resources", a, f, NoNet)

list_contacts(A, F) ==
    \E a \in A, f \in F :
        /\ WithinBound(Registered("list_contacts", a, f, NoNet).store)
        /\ RegisteredCall("list_contacts", a, f, NoNet)

get_project_by_name(A, F) ==
    \E a \in A, f \in F :
        /\ WithinBound(Answer("get_project_by_name", a, f, NoNet).store)
        /\ ToolsCall("get_project_by_name", a, f, NoNet)

get_environment_by_name(A, F) ==
    \E a \in A, f \in F :
        /\ WithinBound(Answer("get_environment_by_name", a, f, NoNet).store)
        /\ ToolsCall("get_environment_by_name", a, f, NoNet)

get_resource_by_name(A, F) ==
    \E a \in A, f \in F :
        /\ WithinBound(Answer("get_resource_by_name", a, f, NoNet).store)
        /\ ToolsCall("get_resource_by_name", a, f, NoNet)

get_contact_by_email(A, F) ==
    \E a \in A, f \in F :
        /\ WithinBound(Registered("get_contact_by_email", a, f, NoNet).store)
        /\ RegisteredCall("get_contact_by_email", a, f, NoNet)

create_environment(A, F) ==
    \E a \in A, f \in F :
        /\ WithinBound(Answer("create_environment", a, f, NoNet).store)
        /\ ToolsCall("create_environment", a, f, NoNet)

update_environment(A, F) ==
    \E a \in A, f \in F :
        /\ WithinBound(Answer("update_environment", a, f, NoNet).store)
        /\ ToolsCall("update_environment", a, f, NoNet)

delete_environment(A, F) ==
    \E a \in A, f \in F :
        /\ WithinBound(Answer("delete_environment", a, f, NoNet).store)
        /\ ToolsCall("delete_environment", a, f, NoNet)

create_resource(A, F) ==
    \E a \in A, f \in F :
        /\ WithinBound(Answer("create_resource", a, f, NoNet).store)
        /\ ToolsCall("create_resource", a, f, NoNet)

update_resource(A, F) ==
    \E a \in A, f \in F :
        /\ WithinBound(Answer("update_resource", a, f, NoNet).store)
        /\ ToolsCall("update_resource", a, f, NoNet)

delete_resource(A, F) ==
    \E a \in A, f \in F :
        /\ WithinBound(Answer("delete_resource", a, f, NoNet).store)
        /\ ToolsCall("delete_resource", a, f, NoNet)

list_resource_contacts(A, F) ==
    \E a \in A, f \in F :
        /\ WithinBound(Registered("list_resource_contacts", a, f, NoNet).store)
        /\ RegisteredCall("list_resource_contacts", a, f, NoNet)

\* the handler called as its signature declares, (resourceId?, contactId?),
\* with the properties of the argument object a
getResourceContactToolListTool_call(A, F) ==
    \E a \in A, f \in F :
        LET param(k) == IF Has(a, k) THEN JsNumber(a[k]) ELSE JsUndefined
            out == Out("getResourceContactToolListTool",
                       getResourceContactToolListTool(Store, param("resourceId"),
                                                      param("contactId"), f))
        IN  /\ WithinBound(out.store)
            /\ Settle([via |-> "direct", name |-> "list_resource_contacts", args |-> a,
                       body |-> ToolBody("list_resource_contacts", a),
                       failAt |-> f, net |-> NoNet], out)

\* a caller of the repository runs one delete-all-by-parent operation: the
\* promise is fulfilled with { success, deletedCount } or rejected
delete_all_by_parent(Ops, I, F) ==
    \E op \in Ops, id \in I, f \in F :
        LET d == deleteAllByParent(Store, op, f # 1, id)
        IN  /\ WithinBound(d.store)
            /\ Settle([via |-> "repo", name |-> op, args |-> [id |-> id],
                       body |-> JsNull, failAt |-> f, net |-> NoNet],
                      Out(op, [store |-> d.store,
                               kind |-> IF d.thrown THEN "rejected" ELSE "fulfilled",
                               isError |-> FALSE, text |-> <<"", "">>, data |-> d.rows]))

search_contacts(A, F) ==
    \E a \in A, f \in F :
        /\ WithinBound(Registered("search_contacts", a, f, NoNet).store)
        /\ RegisteredCall("search_contacts", a, f, NoNet)

create_contact(A, F) ==
    \E a \in A, f \in F :
        /\ WithinBound(Registered("create_contact", a, f, NoNet).store)
        /\ RegisteredCall("create_contact", a, f, NoNet)

update_contact(A, F) ==
    \E a \in A, f \in F :
        /\ WithinBound(Registered("update_contact", a, f, NoNet).store)
        /\ RegisteredCall("update_contact", a, f, NoNet)

delete_contact(A, F) ==
    \E a \in A, f \in F :
        /\ WithinBound(Registered("delete_contact", a, f, NoNet).store)
        /\ RegisteredCall("delete_contact", a, f, NoNet)

create_resource_contact(A, F) ==
    \E a \in A, f \in F :
        /\ WithinBound(Registered("create_resource_contact", a, f, NoNet).store)
        /\ RegisteredCall("create_resource_contact", a, f, NoNet)

update_resource_contact(A, F) ==
    \E a \in A, f \in F :
        /\ WithinBound(Registered("update_resource_contact", a, f, NoNet).store)
        /\ RegisteredCall("update_resource_contact", a, f, NoNet)

delete_resource_contact(A, F) ==
    \E a \in A, f \in F :
        /\ WithinBound(Registered("delete_resource_contact", a, f, NoNet).store)
        /\ RegisteredCall("delete_resource_contact", a, f, NoNet)

\* tools/call with a tool name the switch does not route
unknown_tool(N, A) ==
    \E n \in N, a \in A :
        /\ n \notin RoutedNames
        /\ ToolsCall(n, a, 0, NoNet)

\* tools/call with a body that is no { name: string, ... }
invalid_request(B) ==
    \E b \in B :
        /\ ~(/\ b.type = "object"
              /\ Has(b.value, "name")
              /\ b.value.name.type = "string"
              /\ b.value.name.value # "")
        /\ ToolsCallRaw(b)

(***************************************************************************)
(* The arguments the callers of the model send.                            *)
(***************************************************************************)
Ids == 1..MaxId

ById == {[id |-> i] : i \in Ids}

\* the parents (projects, environments, resources, contacts) a caller names
ParentIds == {1, 2}

ProjectNames == {"Acme", "acme", "Beta"}

EnvNames == {"Dev", "dev"}

ResourceNames == {"Api", "api"}

CreateProjectArgs(N) == {[name |-> n, description |-> "d"] : n \in N}

UpdateProjectArgs ==
    {[id |-> i, name |-> n] : i \in Ids, n \in ProjectNames}
        \cup {[id |-> i, description |-> "e"] : i \in Ids}

CreateEnvArgs == {[name |-> n, projectId |-> p] : n \in EnvNames, p \in ParentIds}

UpdateEnvArgs ==
    {[id |-> i, name |-> n] : i \in Ids, n \in EnvNames}
        \cup {[id |-> i, projectId |-> p] : i \in Ids, p \in ParentIds}

\* resources of project 1
CreateResourceArgs ==
    {[name |-> n, description |-> "d", type |-> "api", projectId |-> 1, envId |-> e] :
        n \in ResourceNames, e \in ParentIds}

UpdateResourceArgs ==
    {[id |-> i, name |-> n] : i \in Ids, n \in ResourceNames}
        \cup {[id |-> i, envId |-> e] : i \in Ids, e \in ParentIds}

\* mcp.sqlite did not exist when the server started
InitFresh == Init /\ ~rcTable

(***************************************************************************)
(* SpecProjects: create_project, update_project and delete_project called  *)
(* one at a time through tools/call, the store healthy.                    *)
(***************************************************************************)
NextProjects ==
    \/ create_project(CreateProjectArgs(ProjectNames), {0})
    \/ update_project(UpdateProjectArgs, {0})
    \/ delete_project(ById, {0})

SpecProjects == InitFresh /\ [][NextProjects]_vars

(***************************************************************************)
(* SpecTree: the create and delete tools of the hierarchy.                 *)
(***************************************************************************)
NextTree ==
    \/ create_project(CreateProjectArgs({"Acme", "acme"}), {0})
    \/ delete_project(ById, {0})
    \/ create_environment(CreateEnvArgs, {0})
    \/ delete_environment(ById, {0})
    \/ create_resource(CreateResourceArgs, {0})
    \/ delete_resource(ById, {0})

SpecTree == InitFresh /\ [][NextTree]_vars

(***************************************************************************)
(* SpecScoped: the create, update and delete tools of environments and     *)
(* resources.                                                              *)
(***************************************************************************)
NextScoped ==
    \/ create_environment(CreateEnvArgs, {0})
    \/ update_environment(UpdateEnvArgs, {0})
    \/ delete_environment(ById, {0})
    \/ create_resource(CreateResourceArgs, {0})
    \/ update_resource(UpdateResourceArgs, {0})
    \/ delete_resource(ById, {0})

SpecScoped == InitFresh /\ [][NextScoped]_vars

(***************************************************************************)
(* SpecDispatch: tools/call with any body: malformed bodies, names the     *)
(* switch does not route, and routed tools with arguments of any shape,    *)
(* the first store access of a call failing or not.                        *)
(***************************************************************************)
MalformedBodies ==
    {JsNull, JsString("create_project"), JsNumber(0), JsObject(EmptyObject),
     JsObject([arguments |-> [id |-> 1]]),
     JsObject([name |-> JsNull, arguments |-> [id |-> 1]]),
     JsObject([name |-> JsNumber(7), arguments |-> [id |-> 1]]),
     JsObject([name |-> JsString(""), arguments |-> [id |-> 1]]),
     JsObject([name |-> JsObject(EmptyObject), arguments |-> [id |-> 1]])}

\* names of no tool, and the names of catalogue tools the switch leaves out
UnroutedNames == {"frobnicate", "create_contact", "delete_resource_contact"}

AnyArgs ==
    {Undefined, EmptyObject, [id |-> 1], [id |-> 1, name |-> "Acme"],
     [id |-> 1, projectId |-> -1], [name |-> "Acme", description |-> "d"],
     [name |-> "Dev", projectId |-> 1], [name |-> "Dev"]}

NextDispatch ==
    \/ invalid_request(MalformedBodies)
    \/ unknown_tool(UnroutedNames, {Undefined, [id |-> 1]})
    \/ create_project(AnyArgs, {0})
    \/ update_project(AnyArgs, {0})
    \/ delete_project(AnyArgs, {0})
    \/ get_project_by_id(AnyArgs, {0, 1})
    \/ create_environment(AnyArgs, {0})
    \/ update_environment(AnyArgs, {0})
    \/ delete_environment(AnyArgs, {0, 1})

SpecDispatch == InitFresh /\ [][NextDispatch]_vars

(***************************************************************************)
(* SpecContacts: the contact tools, called as registered with the MCP      *)
(* server, one at a time; any one store access of a call may fail.         *)
(***************************************************************************)
Emails == {"ann@x.io", "bob@x.io"}

CreateContactArgs == {[firstName |-> "Ann", lastName |-> "Lee", email |-> e] : e \in Emails}

UpdateContactArgs ==
    {[id |-> i, email |-> e] : i \in Ids, e \in Emails}
        \cup {[id |-> i, phone |-> "555"] : i \in Ids}

NextContacts ==
    \/ create_contact(CreateContactArgs, 0..2)
    \/ update_contact(UpdateContactArgs, 0..3)
    \/ delete_contact(ById, 0..2)

SpecContacts == InitFresh /\ [][NextContacts]_vars

(***************************************************************************)
(* SpecLinks: the association tools with the tools that create and delete  *)
(* the resources and contacts they link; the association table may have    *)
(* been created in mcp.sqlite or not.                                      *)
(***************************************************************************)
Roles == {"owner", "backup"}

PairArgs == {[resourceId |-> r, contactId |-> c] : r \in ParentIds, c \in ParentIds}

PairRoleArgs ==
    {[resourceId |-> r, contactId |-> c, role |-> x] :
        r \in ParentIds, c \in ParentIds, x \in Roles}

LinkedResourceArgs ==
    {[name |-> "Api", description |-> "d", type |-> "api", projectId |-> 1, envId |-> 1]}

NextLinks ==
    \/ create_contact(CreateContactArgs, {0})
    \/ delete_contact(ById, {0})
    \/ create_resource(LinkedResourceArgs, {0})
    \/ delete_resource(ById, {0})
    \/ create_resource_contact(PairRoleArgs, {0})
    \/ update_resource_contact(PairRoleArgs, {0})
    \/ delete_resource_contact(PairArgs, {0})

SpecLinks == Init /\ [][NextLinks]_vars

(***************************************************************************)
(* Properties.                                                             *)
(***************************************************************************)
\* the body names a tool the switch of ToolCallController routes
NamesRoutedTool(body) ==
    /\ body.type = "object"
    /\ Has(body.value, "name")
    /\ body.value.name.type = "string"
    /\ body.value.name.value \in RoutedNames

\* the call of this step was answered isError: true with message msg and
\* changed no table
RejectedWith(msg) ==
    /\ result'.kind = "envelope"
    /\ result'.isError
    /\ result'.text[1] = msg
    /\ UNCHANGED tables

\* C1: every call of the dispatcher completes with an envelope
\* {isError, content}; no exception or rejected promise of a handler or of
\* a repository call escapes to the caller of tools/call.
C1_DispatcherAlwaysAnswers ==
    call.via = "tools/call" => result.kind = "envelope"

\* C2: a call of a routed tool whose arguments violate the tool's
\* inputSchema is answered isError: true, invokes no handler and leaves the
\* store unchanged.
C2_InvalidArgumentsRejected ==
    [][(/\ call'.via = "tools/call"
        /\ NamesRoutedTool(call'.body)
        /\ ~inputSchemaAccepts(call'.name, call'.args))
       => (/\ result'.kind = "envelope"
           /\ result'.isError
           /\ result'.handler = "none"
           /\ UNCHANGED tables)]_vars

\* C3: a dispatcher call that names no routed tool (an unknown name, a
\* missing or non-string name, a body that is no object) is answered
\* isError: true without a throw, invokes no handler and leaves the store
\* unchanged; for an unknown name the text names the tool.
C3_UnroutedCallsAnswered ==
    [][(call'.via = "tools/call" /\ ~NamesRoutedTool(call'.body))
       => (/\ result'.kind = "envelope"
           /\ result'.isError
           /\ result'.handler = "none"
           /\ UNCHANGED tables
           /\ call'.name # "" => result'.text = <<"Unknown tool", call'.name>>)]_vars

\* C3 happens: the name of a catalogue tool the switch does not route was
\* answered "Unknown tool: create_contact"
C3_Witness ==
    /\ call.via = "tools/call"
    /\ call.name = "create_contact"
    /\ result.isError
    /\ result.text = <<"Unknown tool", "create_contact">>

\* C4: create_project with a name equal ignoring case to an existing
\* project's, create_environment with a name equal ignoring case to an
\* environment of the same projectId, and create_resource with a name equal
\* ignoring case to a resource of the same (projectId, envId) are answered
\* isError: true with an "already exists" message and insert no row.
C4_DuplicateCreateRejected ==
    [][/\ (/\ call'.name = "create_project"
           /\ \E r \in projects : toLowerCase(r.name) = toLowerCase(call'.args.name))
          => RejectedWith("Project already exists")
       /\ (/\ call'.name = "create_environment"
           /\ \E r \in envs : /\ r.projectId = call'.args.projectId
                              /\ toLowerCase(r.name) = toLowerCase(call'.args.name))
          => RejectedWith("Environment already exists in this project")
       /\ (/\ call'.name = "create_resource"
           /\ \E r \in resources : /\ r.projectId = call'.args.projectId
                                   /\ r.envId = call'.args.envId
                                   /\ toLowerCase(r.name) = toLowerCase(call'.args.name))
          => RejectedWith("Resource already exists in this environment")]_vars

\* C4 happens: a create_resource was rejected for a name that differs from
\* the stored one only in letter case
C4_Witness ==
    /\ call.name = "create_resource"
    /\ result.isError
    /\ result.text[1] = "Resource already exists in this environment"
    /\ \E r \in resources : /\ r.projectId = call.args.projectId
                            /\ r.envId = call.args.envId
                            /\ r.name # call.args.name
                            /\ toLowerCase(r.name) = toLowerCase(call.args.name)

\* C5: no two project rows have names that are equal ignoring letter case,
\* in every state create_project, update_project and delete_project reach.
C5_ProjectNamesUnique ==
    \A p, q \in projects : toLowerCase(p.name) = toLowerCase(q.name) => p.id = q.id

\* C6: no two environments of one project share a name and no two resources
\* of one (project, environment) share a name, in every state the create,
\* update and delete tools of environments and resources reach.
C6_ScopedNamesUnique ==
    /\ \A p, q \in envs :
           (p.projectId = q.projectId /\ p.name = q.name) => p.id = q.id
    /\ \A p, q \in resources :
           (p.projectId = q.projectId /\ p.envId = q.envId /\ p.name = q.name)
               => p.id = q.id

\* C7: no two contacts have the same email, whether or not a store access
\* fails; with the store healthy create_contact rejects an email already
\* stored, update_contact rejects the email of a different contact and
\* accepts the contact's own.
C7_ContactEmailsUnique ==
    [][/\ \A p, q \in contacts' : p.email = q.email => p.id = q.id
       /\ (/\ call'.name = "create_contact"
           /\ call'.failAt = 0
           /\ \E r \in contacts : r.email = call'.args.email)
          => RejectedWith("Contact already exists")
       /\ (/\ call'.name = "update_contact"
           /\ call'.failAt = 0
           /\ Has(call'.args, "email")
           /\ \E r \in contacts : r.id = call'.args.id
           /\ \E q \in contacts : q.email = call'.args.email /\ q.id # call'.args.id)
          => RejectedWith("Email is already used by another contact")
       /\ (/\ call'.name = "update_contact"
           /\ call'.failAt = 0
           /\ Has(call'.args, "email")
           /\ \E r \in contacts : r.id = call'.args.id /\ r.email = call'.args.email)
          => (result'.kind = "envelope" /\ ~result'.isError)]_vars

\* C7 happens: with two contacts stored, an update_contact to the email of
\* the other contact was rejected
C7_Witness ==
    /\ call.name = "update_contact"
    /\ Has(call.args, "email")
    /\ result.isError
    /\ result.text = <<"Email is already used by another contact", call.args.email>>
    /\ \E r, q \in contacts : /\ r.id = call.args.id
                              /\ q.id # r.id
                              /\ q.email = call.args.email

\* C8: a (resourceId, contactId) pair appears at most once among the
\* associations; create_resource_contact for a pair already associated is
\* answered isError: true with an "already exists" message carrying the role
\* of the existing association and leaves the associations unchanged.
C8_PairAssociatedOnce ==
    [][/\ \A p, q \in resourceContacts' : SamePair(p, q) => p = q
       /\ \A r \in resourceContacts :
              (call'.name = "create_resource_contact" /\ SamePair(r, call'.args))
                  => (/\ result'.kind = "envelope"
                      /\ result'.isError
                      /\ result'.text =
                             <<"Resource-contact association already exists with role", r.role>>
                      /\ UNCHANGED tables)]_vars

\* C8 happens: a pair associated as one role was asked to be associated as
\* another, and the answer carries the existing role
C8_Witness ==
    /\ call.name = "create_resource_contact"
    /\ result.isError
    /\ result.text[1] = "Resource-contact association already exists with role"
    /\ result.text[2] # call.args.role
    /\ \E r \in resourceContacts : SamePair(r, call.args) /\ r.role = result.text[2]

\* C9: every environment's projectId is the id of a project, and every
\* resource's projectId and envId are the ids of a project and of an
\* environment, in every reachable state.
C9_ParentsExist ==
    /\ \A e \in envs : \E p \in projects : p.id = e.projectId
    /\ \A r \in resources : /\ \E p \in projects : p.id = r.projectId
                            /\ \E e \in envs : e.id = r.envId

\* C10: every association's resourceId is the id of a resource and its
\* contactId the id of a contact, in every reachable state.
C10_AssociationEndsExist ==
    \A rc \in resourceContacts :
        /\ \E r \in resources : r.id = rc.resourceId
        /\ \E c \in contacts : c.id = rc.contactId


\* C11: after a delete_project(id) that answers success, no environment and
\* no resource row has projectId = id.
C11_DeleteProjectCascades ==
    [][(/\ call'.name = "delete_project"
        /\ result'.kind = "envelope"
        /\ ~result'.isError)
       => (/\ \A e \in envs' : e.projectId # call'.args.id
           /\ \A r \in resources' : r.projectId # call'.args.id)]_vars


(***************************************************************************)
(* SpecUpdates: the four update tools called with the id alone or with a   *)
(* field to write, next to the tools that create the rows they update.     *)
(***************************************************************************)
NextUpdates ==
    \/ create_project(CreateProjectArgs({"Acme"}), {0})
    \/ update_project(ById \cup {[id |-> 1, description |-> "e"],
                                 [id |-> 1, name |-> "Acme", description |-> ""]}, {0})
    \/ create_environment({[name |-> "Dev", projectId |-> 1]}, {0})
    \/ update_environment(ById \cup {[id |-> 1, name |-> "dev"]}, {0})
    \/ create_resource(LinkedResourceArgs, {0})
    \/ update_resource(ById \cup {[id |-> 1, name |-> "api"]}, {0})
    \/ create_contact({[firstName |-> "Ann", lastName |-> "Lee", email |-> "ann@x.io"]}, {0})
    \/ update_contact(ById \cup {[id |-> 1, phone |-> "555"]}, {0})

SpecUpdates == InitFresh /\ [][NextUpdates]_vars

UpdateTools == {"update_project", "update_environment", "update_resource", "update_contact"}

\* the rows of the collection an update tool writes
RowsOf(S, name) ==
    CASE name = "update_project" -> S.projects
      [] name = "update_environment" -> S.envs
      [] name = "update_resource" -> S.resources
      [] name = "update_contact" -> S.contacts

\* C12: an update tool called with only the id of a stored row answers an
\* error result (isError true, "no fields to update") and leaves every row
\* of the store as it was.
C12_IdOnlyUpdateRejected ==
    [][(/\ call'.name \in UpdateTools
        /\ DOMAIN call'.args = {"id"}
        /\ \E r \in RowsOf(Store, call'.name) : r.id = call'.args.id)
       => (/\ result'.kind = "envelope"
           /\ result'.isError
           /\ UNCHANGED tables)]_vars


(***************************************************************************)
(* SpecMissing: the update and delete tools of contacts and associations   *)
(* called for rows that exist and rows that do not; the association table  *)
(* may have been created in mcp.sqlite or not.                             *)
(***************************************************************************)
NextMissing ==
    \/ create_contact({[firstName |-> "Ann", lastName |-> "Lee", email |-> "ann@x.io"]}, {0})
    \/ update_contact({[id |-> i, phone |-> "555"] : i \in Ids}, {0})
    \/ delete_contact(ById, {0})
    \/ create_resource(LinkedResourceArgs, {0})
    \/ create_resource_contact(PairRoleArgs, {0})
    \/ update_resource_contact(PairRoleArgs, {0})
    \/ delete_resource_contact(PairArgs, {0})

SpecMissing == Init /\ [][NextMissing]_vars

\* the call about to be answered names a contact id or a pair nothing is stored for
NamesNoRow ==
    \/ /\ call'.name \in {"update_contact", "delete_contact"}
       /\ \A c \in contacts : c.id # call'.args.id
    \/ /\ call'.name \in {"update_resource_contact", "delete_resource_contact"}
       /\ \A l \in resourceContacts : ~SamePair(l, call'.args)

NotFoundText ==
    IF call'.name \in {"update_contact", "delete_contact"}
    THEN "No contact found"
    ELSE "No resource-contact association found"

\* C13: update_contact and delete_contact for an id with no row, and
\* update_resource_contact and delete_resource_contact for a pair with no
\* association, answer isError true with a not-found message and change
\* nothing in the store.
C13_MissingRowNotFound ==
    [][NamesNoRow => RejectedWith(NotFoundText)]_vars

\* the same, the not-found text asked of the association tools only when
\* their table exists
C13_MissingRowIsError ==
    [][NamesNoRow =>
          /\ result'.kind = "envelope"
          /\ result'.isError
          /\ UNCHANGED tables
          /\ (rcTable \/ call'.name \in {"update_contact", "delete_contact"})
                => result'.text[1] = NotFoundText]_vars


(***************************************************************************)
(* SpecReadBack: each create tool with the read of the same collection by  *)
(* its natural key alone.                                                  *)
(***************************************************************************)
NextReadBack ==
    \/ create_project(CreateProjectArgs({"Acme", "Beta"}), {0})
    \/ get_project_by_name({[name |-> n] : n \in {"Acme", "Beta"}}, {0})
    \/ create_environment({[name |-> "Dev", projectId |-> p] : p \in ParentIds}, {0})
    \/ get_environment_by_name({[name |-> "Dev"]}, {0})
    \/ create_resource({a \in CreateResourceArgs : a.name = "Api"}, {0})
    \/ get_resource_by_name({[name |-> "Api"]}, {0})
    \/ create_contact(CreateContactArgs, {0})
    \/ get_contact_by_email({[email |-> e] : e \in Emails}, {0})

SpecReadBack == InitFresh /\ [][NextReadBack]_vars

\* the read tool of a create tool's collection, and the natural key it reads by
ReadBackOf(name) ==
    CASE name = "create_project" -> [tool |-> "get_project_by_name", key |-> "name"]
      [] name = "create_environment" -> [tool |-> "get_environment_by_name", key |-> "name"]
      [] name = "create_resource" -> [tool |-> "get_resource_by_name", key |-> "name"]
      [] name = "create_contact" -> [tool |-> "get_contact_by_email", key |-> "email"]

CreatedIn(name) ==
    CASE name = "create_project" -> projects
      [] name = "create_environment" -> envs
      [] name = "create_resource" -> resources
      [] name = "create_contact" -> contacts

\* the row the last insert into T added: the one of the greatest id
Newest(T) == CHOOSE r \in T : \A q \in T : q.id <= r.id

\* the call just answered was a create that succeeded and the call about to
\* be answered reads the same collection by the created row's key alone
ReadsBackCreate ==
    /\ call.name \in {"create_project", "create_environment", "create_resource",
                      "create_contact"}
    /\ result.kind = "envelope" /\ ~result.isError
    /\ call'.name = ReadBackOf(call.name).tool
    /\ DOMAIN call'.args = {ReadBackOf(call.name).key}
    /\ call'.args[ReadBackOf(call.name).key] = call.args[ReadBackOf(call.name).key]

\* C14: a read by the natural key alone that immediately follows a
\* successful create returns the row just created: every supplied field as
\* supplied, with the id the create assigned.
C14_ReadBackReturnsCreated ==
    [][ReadsBackCreate =>
          LET row == Newest(CreatedIn(call.name))
          IN  /\ \A f \in DOMAIN call.args : row[f] = call.args[f]
              /\ result'.kind = "envelope"
              /\ ~result'.isError
              /\ result'.data = {row}]_vars


(***************************************************************************)
(* SpecLists: the list tools with the tools that create and delete the     *)
(* rows they list, the store healthy.                                      *)
(***************************************************************************)
EnvFilters == {Undefined, EmptyObject} \cup {[projectId |-> p] : p \in ParentIds}

ResourceFilters ==
    EnvFilters \cup {[envId |-> e] : e \in ParentIds}
        \cup {[projectId |-> p, envId |-> e] : p \in ParentIds, e \in ParentIds}

NextLists ==
    \/ create_project(CreateProjectArgs({"Acme"}), {0})
    \/ list_projects({Undefined, EmptyObject}, {0})
    \/ create_environment({[name |-> "Dev", projectId |-> p] : p \in ParentIds}, {0})
    \/ delete_environment(ById, {0})
    \/ list_environments(EnvFilters, {0})
    \/ create_resource({[name |-> "Api", description |-> "d", type |-> "api",
                         projectId |-> p, envId |-> e] :
                            p \in ParentIds, e \in ParentIds}, {0})
    \/ delete_resource(ById, {0})
    \/ list_resources(ResourceFilters, {0})
    \/ create_contact({[firstName |-> "Ann", lastName |-> "Lee", email |-> "ann@x.io"]}, {0})
    \/ list_contacts({EmptyObject}, {0})

SpecLists == InitFresh /\ [][NextLists]_vars

\* row r has the value the filter a names for column f, if it names one
Matches(r, a, f) == Has(a, f) => r[f] = a[f]

\* the stored rows a list call with arguments a is about
Listed(name, a) ==
    CASE name = "list_projects" -> projects
      [] name = "list_environments" -> {r \in envs : Matches(r, a, "projectId")}
      [] name = "list_resources" ->
             {r \in resources : Matches(r, a, "projectId") /\ Matches(r, a, "envId")}
      [] name = "list_contacts" -> contacts

Plain(n, e) == [name |-> n, description |-> "d", type |-> "api", projectId |-> 1, envId |-> e]

Probed(n, e) ==
    [name |-> n, description |-> "d", type |-> "api", projectId |-> 1, envId |-> e,
     healthCheckUrl |-> "http://h", aliveCheckUrl |-> "http://a"]

WithHeaders(n, e, h) ==
    [name |-> n, description |-> "d", type |-> "api", projectId |-> 1, envId |-> e,
     healthCheckUrl |-> "http://h", aliveCheckUrl |-> "http://a", headers |-> h]

MonitoredResourceArgs ==
    {Plain("api", 1), Probed("api", 1),
     Probed("web", 1), WithHeaders("web", 1, "{oops"),
     WithHeaders("db", 1, "{\"k\":\"v\"}"), Probed("db", 2)}

\* every endpoint answers 2xx, or all but that of resource 1 do, or none answers
Nets ==
    {[i \in Ids |-> IF i = k THEN x ELSE "200"] : k \in {0, 1}, x \in {"500", "down"}}
        \cup {NoNet}

ResourceIdArgs == {[resourceId |-> i] : i \in Ids}

ScopeArgs == {[projectId |-> 1, envId |-> e] : e \in ParentIds} \cup {[projectId |-> 2, envId |-> 1]}

NextMonitor ==
    \/ create_resource(MonitoredResourceArgs, {0})
    \/ get_resource_health_status(ResourceIdArgs \cup {EmptyObject}, {0, 1}, Nets)
    \/ get_resource_alive_status(ResourceIdArgs \cup {EmptyObject}, {0, 1}, Nets)
    \/ get_project_resources_health_status(ScopeArgs, {0}, Nets)

SpecMonitor == InitFresh /\ [][NextMonitor]_vars


\* the stored resource a monitoring call names, as a set of at most one row
Named(a) == {r \in resources : Has(a, "resourceId") /\ r.id = a.resourceId}

\* C16: get_resource_health_status answers isError true when no resource
\* has the id, when the resource has no healthCheckUrl (the message names
\* the resource, whatever the endpoints would answer) and when the outbound
\* request fails; it answers isError false, carrying the response body,
\* only when the request succeeded; it never changes the store.
C16_HealthStatusErrors ==
    [][call'.name = "get_resource_health_status"
       => LET a == call'.args
              net == call'.net
          IN  /\ result'.kind = "envelope"
              /\ UNCHANGED tables
              /\ Named(a) = {} => result'.isError
              /\ \A r \in Named(a) :
                    /\ r.healthCheckUrl = Null =>
                          /\ result'.isError
                          /\ call'.failAt = 0 =>
                                result'.text =
                                    <<"No health check URL configured for resource", r.name>>
                    /\ net[r.id] # "200" => result'.isError
              /\ ~result'.isError =>
                    \E r \in Named(a) :
                        /\ r.healthCheckUrl # Null
                        /\ net[r.id] = "200"
                        /\ result'.data = {[body |-> net[r.id]]}]_vars

\* the health of a resource without healthCheckUrl was asked for while its
\* endpoint would have answered 2xx, and the answer was an error
C16_Witness ==
    /\ call.name = "get_resource_health_status"
    /\ \E r \in Named(call.args) :
          r.healthCheckUrl = Null /\ call.net[r.id] = "200" /\ call.failAt = 0
    /\ result.isError


\* C17: with the store answering, get_resource_alive_status answers isError
\* true when no resource has the id and when the resource has no
\* aliveCheckUrl, and isError false with alive false when the resource has
\* an aliveCheckUrl and its endpoint does not answer (network error or
\* timeout).
C17_AliveStatusErrors ==
    [][(call'.name = "get_resource_alive_status" /\ call'.failAt = 0)
       => LET a == call'.args
              net == call'.net
          IN  /\ result'.kind = "envelope"
              /\ Named(a) = {} => result'.isError
              /\ \A r \in Named(a) :
                    /\ r.aliveCheckUrl = Null =>
                          /\ result'.isError
                          /\ result'.text =
                                <<"No alive check URL configured for resource", r.name>>
                    /\ (r.aliveCheckUrl # Null /\ net[r.id] = "down") =>
                          /\ ~result'.isError
                          /\ result'.data = {[alive |-> FALSE]}]_vars

\* the liveness of a resource with an aliveCheckUrl was asked for, its
\* endpoint did not answer, and the answer was alive false, not an error
C17_Witness ==
    /\ call.name = "get_resource_alive_status" /\ call.failAt = 0
    /\ \E r \in Named(call.args) : r.aliveCheckUrl # Null /\ call.net[r.id] = "down"
    /\ ~result.isError
    /\ result.data = {[alive |-> FALSE]}

\* C18: the liveness probe answers alive true whenever the endpoint sent
\* any HTTP response, a non-2xx one included, and alive false only when no
\* response came (timeout or network failure).
C18_AnyResponseIsAlive ==
    [][(call'.name = "get_resource_alive_status" /\ call'.failAt = 0)
       => \A r \in Named(call'.args) :
             (r.aliveCheckUrl # Null /\ (r.headers = Null \/ JSONparses(r.headers)))
                => (/\ ~result'.isError
                    /\ result'.data = {[alive |-> call'.net[r.id] # "down"]})]_vars


\* the probe of resource r would succeed: its stored headers parse and its
\* endpoint answers 2xx
ProbeSucceeds(r, net) == (r.headers = Null \/ JSONparses(r.headers)) /\ net[r.id] = "200"

C20_IdsNeverReused ==
    [][(/\ call.name = "delete_contact"
        /\ result.kind = "envelope" /\ ~result.isError
        /\ call'.name = "create_contact"
        /\ result'.kind = "envelope" /\ ~result'.isError)
       => \A r \in contacts' \ contacts : r.id > call.args.id]_vars


\* the names tools/call does not answer with "Unknown tool"
Dispatched ==
    {n \in toolSchemaList \cup UnroutedNames :
        ToolCallController(Store, ToolBody(n, EmptyObject), 0, NoNet).text[1] # "Unknown tool"}

\* C21: the names the tool listing returns, the names the dispatcher routes
\* to a handler and the names of the full catalogue (toolSchemaList, the
\* contact and association tools included) are one and the same set.
C21_ListedRoutedCatalogueAgree ==
    /\ ToolsListingController = toolSchemaList
    /\ Dispatched = toolSchemaList


\* the rows of the collection an update or delete tool of the hierarchy writes
HierarchyRows(name) ==
    CASE name \in {"update_project", "delete_project"} -> projects
      [] name \in {"update_environment", "delete_environment"} -> envs
      [] name \in {"update_resource", "delete_resource"} -> resources

\* C22: update_project, delete_project, update_environment,
\* delete_environment, update_resource and delete_resource called with an
\* id no stored row has answer isError true, never a success.
C22_MissingIdIsError ==
    [][(/\ call'.name \in {"update_project", "delete_project", "update_environment",
                           "delete_environment", "update_resource", "delete_resource"}
        /\ Has(call'.args, "id")
        /\ \A r \in HierarchyRows(call'.name) : r.id # call'.args.id)
       => (result'.kind = "envelope" /\ result'.isError)]_vars


ReadTools ==
    {"get_project_by_id", "get_project_by_name", "get_environment_by_id",
     "get_environment_by_name", "get_resource_by_id", "get_resource_by_name",
     "get_contact_by_id", "get_contact_by_email"}

\* C23: a read handler called with neither a natural key (name, email) nor
\* an id answers isError true, and touches the store so little that the
\* answer is the same whether the store can be reached or not.
C23_KeylessReadIsError ==
    [][(/\ call'.name \in ReadTools
        /\ ~IsUndefined(call'.args)
        /\ DOMAIN call'.args \cap {"name", "email", "id"} = {})
       => (/\ result'.kind = "envelope"
           /\ result'.isError
           /\ UNCHANGED tables
           /\ ToolCallController(Store, call'.body, 0, NoNet)
                 = ToolCallController(Store, call'.body, 1, NoNet))]_vars


\* C24: a tool call during which the store call fails answers isError true;
\* so does get_resource_alive_status when the lookup of its resource fails
\* or the stored headers string does not parse: only the probe's own
\* network failure or timeout is answered isError false with alive false.
C24_StoreFailureIsError ==
    [][(/\ call'.name \in {"get_resource_health_status", "get_resource_alive_status"}
        /\ Has(call'.args, "resourceId")
        /\ \/ call'.failAt = 1
           \/ \E r \in Named(call'.args) :
                 /\ r.healthCheckUrl # Null /\ r.aliveCheckUrl # Null
                 /\ r.headers # Null /\ ~JSONparses(r.headers))
       => (result'.kind = "envelope" /\ result'.isError)]_vars


(***************************************************************************)
(* SpecFleet: get_project_resources_health_status followed await by await. *)
(* The handler reads the resources of the scope, then probes them one      *)
(* after the other, each `await axios.get` resuming when the endpoint has  *)
(* answered, has failed, or the request has timed out; an endpoint that is *)
(* "silent" accepts the request and never answers.                         *)
(***************************************************************************)
\* timeout of axios.get(resource.healthCheckUrl, { headers }) in
\* milliseconds: none is passed, and the default of axios is 0, no timeout
HealthProbeTimeout == 0

\* the rows of T in the order of their ids, the order query.all() returns
InIdOrder(T) ==
    CHOOSE s \in [1..Cardinality(T) -> T] :
        \A i, j \in 1..Cardinality(T) : i < j => s[i].id < s[j].id

\* the await of the probe of r settles: nothing is awaited, JSON.parse
\* throws, the endpoint answers or refuses, or the timeout fires
ProbeSettles(r, net) ==
    \/ ~ColTruthy(r.healthCheckUrl)
    \/ ~HeadersDecode(r)
    \/ net[r.id] # "silent"
    \/ HealthProbeTimeout > 0

\* the handler starts: await getServiceNinjaResources(projectId, envId)
fleet_begin(p, A, N) ==
    \E a \in A, n \in N :
        /\ running[p].pc = "idle"
        /\ running' =
              [running EXCEPT ![p] =
                  [pc |-> "probing", name |-> "get_project_resources_health_status",
                   args |-> a, net |-> n,
                   pending |-> InIdOrder(getServiceNinjaResources(Store, TRUE, a).rows),
                   entries |-> {}]]
        /\ UNCHANGED <<tables, call, result, sqlite>>

\* one turn of the for...of loop: the probe of the next resource settled
fleet_probe(p) ==
    /\ running[p].pc = "probing"
    /\ running[p].pending # <<>>
    /\ ProbeSettles(Head(running[p].pending), running[p].net)
    /\ running' =
          [running EXCEPT ![p].pending = Tail(@),
                          ![p].entries =
                              @ \cup {HealthEntry(Head(running[p].pending), running[p].net)}]
    /\ UNCHANGED <<tables, call, result, sqlite>>

\* the loop is over: the handler returns healthResults
fleet_return(p) ==
    /\ running[p].pc = "probing"
    /\ running[p].pending = <<>>
    /\ running' = [running EXCEPT ![p] = Idle]
    /\ call' = [via |-> "tools/call", name |-> running[p].name, args |-> running[p].args,
                body |-> ToolBody(running[p].name, running[p].args),
                failAt |-> 0, net |-> running[p].net]
    /\ result' = [kind |-> "envelope", isError |-> FALSE, text |-> <<"healthResults", "">>,
                  data |-> running[p].entries,
                  handler |-> "getProjectResourcesHealthStatusTool"]
    /\ UNCHANGED <<tables, sqlite>>

\* each endpoint answers 2xx, does not answer in time to connect, or never answers
FleetNets == [Ids -> {"200", "down", "silent"}]

NextFleet ==
    \/ create_resource({Plain("api", 1), Probed("api", 1), Probed("web", 1)}, {0})
    \/ fleet_begin(1, {[projectId |-> 1, envId |-> 1]}, FleetNets)
    \/ fleet_probe(1)
    \/ fleet_return(1)

\* the event loop resumes a handler whose awaited promise has settled
SpecFleet ==
    InitFresh /\ [][NextFleet]_vars /\ WF_vars(fleet_probe(1)) /\ WF_vars(fleet_return(1))

\* C25: a get_project_resources_health_status call that has started
\* eventually returns its aggregate result, also when the health endpoint
\* of a resource in scope never answers.
C25_FleetCheckReturns ==
    (running[1].pc = "probing") ~> (running[1].pc = "idle")


\* the rows of the collection an update tool writes, after the step
RowsAfter(name) ==
    CASE name = "update_project" -> projects'
      [] name = "update_environment" -> envs'
      [] name = "update_resource" -> resources'
      [] name = "update_contact" -> contacts'

\* C26: an update that succeeds rewrites, on the row of the given id,
\* exactly the fields present in the patch: an omitted field keeps its
\* value, a supplied field (an explicit empty string included) takes the
\* supplied value, and every other row of every collection stays as it was.
C26_UpdateWritesThePatch ==
    [][(/\ call'.name \in UpdateTools
        /\ result'.kind = "envelope" /\ ~result'.isError
        /\ \E r \in RowsOf(Store, call'.name) : r.id = call'.args.id)
       => LET before == RowsOf(Store, call'.name)
              after == RowsAfter(call'.name)
              a == call'.args
          IN  /\ \A r \in before :
                    \E q \in after :
                        /\ q.id = r.id
                        /\ \A f \in DOMAIN r :
                              q[f] = IF r.id = a.id /\ f \in DOMAIN a THEN a[f] ELSE r[f]
              /\ Cardinality(after) = Cardinality(before)
              /\ \A n \in UpdateTools \ {call'.name} :
                    RowsAfter(n) = RowsOf(Store, n)
              /\ UNCHANGED <<resourceContacts, rcTable>>]_vars


(***************************************************************************)
(* SpecContactOrder: contacts of different names created and deleted in    *)
(* any order, and listed.                                                  *)
(***************************************************************************)
NextContactOrder ==
    \/ create_contact({[firstName |-> "Ann", lastName |-> "Lee", email |-> "ann@x.io"],
                       [firstName |-> "Bob", lastName |-> "Kay", email |-> "bob@x.io"],
                       [firstName |-> "Bob", lastName |-> "Lee", email |-> "Ann@x.io"]}, {0})
    \/ update_contact({[id |-> i, phone |-> "555"] : i \in Ids}, {0})
    \/ delete_contact(ById, {0})
    \/ list_contacts({EmptyObject}, {0})

SpecContactOrder == InitFresh /\ [][NextContactOrder]_vars

\* the place of a name among the names of the model, in the BINARY
\* collation ORDER BY uses
collate(s) ==
    CASE s = "Ann" -> 1 [] s = "Bob" -> 2 [] s = "Kay" -> 3 [] s = "Lee" -> 4 [] OTHER -> 0

\* contact c does not come after contact d by last name, then first name
ByLastThenFirstName(c, d) ==
    \/ collate(c.lastName) < collate(d.lastName)
    \/ /\ c.lastName = d.lastName
       /\ collate(c.firstName) <= collate(d.firstName)

\* C27: list_contacts returns the contacts ordered by last name and then
\* first name, whatever the order in which they were inserted.
C27_ContactsListedByName ==
    [][(call'.name = "list_contacts" /\ result'.kind = "envelope" /\ ~result'.isError)
       => LET s == InIdOrder(getServiceNinjaContacts(Store, TRUE).rows)
          IN  /\ result'.data = {s[i] : i \in DOMAIN s}
              /\ \A i, j \in DOMAIN s : i < j => ByLastThenFirstName(s[i], s[j])]_vars


\* the handler tools/call hands a call of tool n to
HandlerOf(n) == ToolCallController(Store, ToolBody(n, [id |-> 1]), 0, NoNet).handler

One == {[id |-> 1]}

AnyFailure == {0, 1, 2, 3}

NextFrame ==
    \/ create_project({[name |-> "Acme", description |-> "d"]}, AnyFailure)
    \/ update_project({[id |-> 1, description |-> "e"]}, AnyFailure)
    \/ delete_project(One, AnyFailure)
    \/ get_project_by_id(One, {0, 1})
    \/ list_projects({EmptyObject}, {0, 1})
    \/ create_environment({[name |-> "Dev", projectId |-> 1]}, AnyFailure)
    \/ delete_environment(One, AnyFailure)
    \/ list_environments({[projectId |-> 1]}, {0, 1})
    \/ create_resource({Probed("api", 1)}, AnyFailure)
    \/ delete_resource(One, AnyFailure)
    \/ list_resources({[projectId |-> 1]}, {0, 1})
    \/ create_contact({[firstName |-> "Ann", lastName |-> "Lee", email |-> "ann@x.io"]},
                      AnyFailure)
    \/ update_contact({[id |-> 1, phone |-> "555"]}, AnyFailure)
    \/ delete_contact(One, AnyFailure)
    \/ get_contact_by_email({[email |-> "ann@x.io"]}, {0, 1})
    \/ list_contacts({EmptyObject}, {0, 1})
    \/ search_contacts({[searchTerm |-> t] : t \in {"ann", "LEE", "zz", " "}}, {0, 1})
    \/ create_resource_contact({[resourceId |-> 1, contactId |-> 1, role |-> "owner"]},
                               AnyFailure)
    \/ delete_resource_contact({[resourceId |-> 1, contactId |-> 1]}, AnyFailure)
    \/ get_resource_health_status({[resourceId |-> 1]}, {0, 1}, Nets)
    \/ get_resource_alive_status({[resourceId |-> 1]}, {0, 1}, Nets)
    \/ get_project_resources_health_status({[projectId |-> 1, envId |-> 1]}, {0, 1}, Nets)

SpecFrame == Init /\ [][NextFrame]_vars

\* the tools of the catalogue that write rows of kind k
WriteTools(k) == {"create_" \o k, "update_" \o k, "delete_" \o k}

AllWriteTools ==
    UNION {WriteTools(k) : k \in {"project", "environment", "resource", "contact",
                                  "resource_contact"}}

CreateTools == {"create_project", "create_environment", "create_resource", "create_contact"}

\* the rows the duplicate check of the handler looks for
Clashing(S, name, a) ==
    CASE name = "create_project" ->
             {r \in getServiceNinjaProjects(S, TRUE).rows :
                 toLowerCase(r.name) = toLowerCase(a.name)}
      [] name = "create_environment" ->
             {r \in getServiceNinjaEnvs(S, TRUE, a).rows :
                 toLowerCase(r.name) = toLowerCase(a.name)}
      [] name = "create_resource" ->
             {r \in getServiceNinjaResources(S, TRUE, a).rows :
                 toLowerCase(r.name) = toLowerCase(a.name)}
      [] name = "create_contact" ->
             getServiceNinjaContact(S, TRUE, [email |-> a.email]).rows

\* the handler from `await create...(args)` to its return
InsertAndReturn(S, name, a) ==
    CASE name = "create_project" ->
             LET c == createServiceNinjaProject(S, TRUE, a)
             IN  IF c.thrown THEN Out("createServiceNinjaProjectTool", Reject(S))
                 ELSE Out("createServiceNinjaProjectTool",
                          Reply(c.store, FALSE, "Project created successfully", a.name, {}))
      [] name = "create_environment" ->
             LET c == createServiceNinjaEnv(S, TRUE, a)
             IN  IF c.thrown THEN Out("createServiceNinjaEnvironmentTool", Reject(S))
                 ELSE Out("createServiceNinjaEnvironmentTool",
                          Reply(c.store, FALSE, "Environment created successfully", a.name, {}))
      [] name = "create_resource" ->
             LET c == createServiceNinjaResource(S, TRUE, a)
             IN  IF c.thrown THEN Out("createServiceNinjaResourceTool", Reject(S))
                 ELSE Out("createServiceNinjaResourceTool",
                          Reply(c.store, FALSE, "Resource created successfully", a.name, {}))
      [] name = "create_contact" ->
             LET c == createServiceNinjaContact(S, TRUE, a)
             IN  IF c.thrown
                 THEN Out("createServiceNinjaContactTool",
                          Reply(S, TRUE, "Failed to create contact", "", {}))
                 ELSE Out("createServiceNinjaContactTool",
                          Reply(c.store, FALSE, "Contact created successfully", a.email, {}))

\* how the request of tool `name` reaches its handler
ViaOf(name) == IF name = "create_contact" THEN "mcp" ELSE "tools/call"

\* the duplicate check of a create found no row: the handler goes on to
\* its insert and is suspended there
create_check(p, name, A) ==
    \E a \in A :
        /\ running[p].pc = "idle"
        /\ Clashing(Store, name, a) = {}
        /\ running' = [running EXCEPT ![p] = [Idle EXCEPT !.pc = "checked",
                                                           !.name = name, !.args = a]]
        /\ UNCHANGED <<tables, call, result, sqlite>>

\* the duplicate check of a create found a row: the handler returns its
\* error result without reaching the insert
create_refused(name, A) ==
    \E a \in A :
        /\ Clashing(Store, name, a) # {}
        /\ IF ViaOf(name) = "mcp" THEN RegisteredCall(name, a, 0, NoNet)
                                  ELSE ToolsCall(name, a, 0, NoNet)

\* the INSERT of a suspended create runs and the handler returns
create_insert(p) ==
    LET k == running[p]
        out == InsertAndReturn(Store, k.name, k.args)
    IN  /\ k.pc = "checked"
        /\ WithinBound(out.store)
        /\ running' = [running EXCEPT ![p] = Idle]
        /\ sqlite' = sqlite
        /\ projects' = out.store.projects
        /\ envs' = out.store.envs
        /\ resources' = out.store.resources
        /\ contacts' = out.store.contacts
        /\ resourceContacts' = out.store.resourceContacts
        /\ rcTable' = out.store.rcTable
        /\ call' = [via |-> ViaOf(k.name), name |-> k.name, args |-> k.args,
                    body |-> ToolBody(k.name, k.args), failAt |-> 0, net |-> NoNet]
        /\ result' = [kind |-> out.kind, isError |-> out.isError, text |-> out.text,
                      data |-> out.data, handler |-> out.handler]

RaceEnvArgs == {[name |-> n, projectId |-> 1] : n \in {"Dev", "dev"}}

RaceContactArgs == {[firstName |-> "Ann", lastName |-> "Lee", email |-> "ann@x.io"]}

NextRace ==
    \/ \E p \in Slots : create_check(p, "create_environment", RaceEnvArgs)
    \/ \E p \in Slots : create_check(p, "create_resource", {Plain("api", 1)})
    \/ \E p \in Slots : create_check(p, "create_contact", RaceContactArgs)
    \/ create_refused("create_environment", RaceEnvArgs)
    \/ create_refused("create_resource", {Plain("api", 1)})
    \/ create_refused("create_contact", RaceContactArgs)
    \/ \E p \in Slots : create_insert(p)
    \/ delete_environment(ById, {0})

SpecRace == InitFresh /\ [][NextRace]_vars

\* the rows of S that share the key of a create of tool `name` with
\* arguments a: the name within the parent, or the email
SameKey(S, name, a) ==
    CASE name = "create_environment" ->
             {r \in S.envs : /\ toLowerCase(r.name) = toLowerCase(a.name)
                             /\ r.projectId = a.projectId}
      [] name = "create_resource" ->
             {r \in S.resources : /\ toLowerCase(r.name) = toLowerCase(a.name)
                                  /\ r.projectId = a.projectId /\ r.envId = a.envId}
      [] name = "create_contact" -> {r \in S.contacts : r.email = a.email}

\* C30: the duplicate check and the insert of a create are not atomic.  A
\* create that passed its check reports success and adds its row whatever
\* was stored in between: when two creates of the same key both pass the
\* check before either inserts, both report success and the store ends
\* with two rows of that key.
C30_CheckThenInsertRaces ==
    [][\A p \in Slots :
          (running[p].pc = "checked" /\ running'[p].pc = "idle")
              => LET k == running[p]
                 IN  /\ call'.name = k.name
                     /\ result'.kind = "envelope" /\ ~result'.isError
                     /\ Cardinality(SameKey(Store', k.name, k.args))
                            = Cardinality(SameKey(Store, k.name, k.args)) + 1
                     \* the other create inserted since this one's check
                     /\ SameKey(Store, k.name, k.args) # {}
                            => Cardinality(SameKey(Store', k.name, k.args)) >= 2]_vars

\* two environments of one name in one project, two resources of one name
\* in one environment and two contacts of one email are stored, the last
\* of them by a create that reported success
C30_Witness ==
    /\ \E r, s \in envs : r.id # s.id /\ toLowerCase(r.name) = toLowerCase(s.name)
                                      /\ r.projectId = s.projectId
    /\ \E r, s \in resources : r.id # s.id /\ toLowerCase(r.name) = toLowerCase(s.name)
                                           /\ r.projectId = s.projectId /\ r.envId = s.envId
    /\ \E r, s \in contacts : r.id # s.id /\ r.email = s.email
    /\ call.name \in CreateTools
    /\ result.kind = "envelope" /\ ~result.isError


(***************************************************************************)
(* SpecOpen: the process from its start.  getOrCreateSqlLite step by step: *)
(* a caller that finds db unset constructs a Database and is suspended at  *)
(* `db = await new Database(...)`; when it resumes it stores its instance  *)
(* in db, runs the four CREATE TABLE statements and returns db.  Another   *)
(* caller may enter in between.  Tools are called once the store is open.  *)
(***************************************************************************)
\* mcp.sqlite does not exist and the module variable db is unset
InitProcess ==
    /\ projects = {}
    /\ envs = {}
    /\ resources = {}
    /\ contacts = {}
    /\ resourceContacts = {}
    /\ rcTable = FALSE
    /\ call = NoCall
    /\ result = NoResult
    /\ running = [p \in Slots |-> Idle]
    /\ sqlite = Unopened

\* if (db) return db
getOrCreateSqlLite_cached(p) ==
    /\ running[p].pc = "idle"
    /\ sqlite.db # 0
    /\ sqlite' = [sqlite EXCEPT !.returned = @ \cup {sqlite.db}]
    /\ UNCHANGED <<tables, call, result, running>>

\* db is unset: new Database(dbPath, { create: true }), then the await
getOrCreateSqlLite_open(p) ==
    /\ running[p].pc = "idle"
    /\ sqlite.db = 0
    /\ sqlite' = [sqlite EXCEPT !.opened = @ + 1]
    /\ running' = [running EXCEPT ![p] = [Idle EXCEPT !.pc = "opening",
                                                       !.entries = {sqlite.opened + 1}]]
    /\ UNCHANGED <<tables, call, result>>

\* after the await: db = instance; the four statements run; return db
getOrCreateSqlLite_resume(p) ==
    /\ running[p].pc = "opening"
    /\ \E instance \in running[p].entries :
          sqlite' = [sqlite EXCEPT !.db = instance,
                                   !.ddl = @ + 1,
                                   !.made = @ \cup createTables,
                                   !.returned = @ \cup {instance}]
    /\ running' = [running EXCEPT ![p] = Idle]
    /\ UNCHANGED <<tables, call, result>>

\* the store is open and no caller is inside getOrCreateSqlLite
Ready == sqlite.db # 0 /\ \A p \in Slots : running[p].pc = "idle"

OnePair == {[resourceId |-> 1, contactId |-> 1]}

NextOpen ==
    \/ \E p \in Slots : getOrCreateSqlLite_cached(p)
    \/ \E p \in Slots : getOrCreateSqlLite_open(p)
    \/ \E p \in Slots : getOrCreateSqlLite_resume(p)
    \/ Ready /\ create_contact(CreateContactArgs, {0})
    \/ Ready /\ create_resource({Plain("api", 1)}, {0})
    \/ Ready /\ create_resource_contact({[resourceId |-> 1, contactId |-> 1,
                                          role |-> "owner"]}, {0})
    \/ Ready /\ update_resource_contact({[resourceId |-> 1, contactId |-> 1,
                                          role |-> "backup"]}, {0})
    \/ Ready /\ delete_resource_contact(OnePair, {0})
    \/ Ready /\ list_resource_contacts({EmptyObject, [resourceId |-> 1]}, {0})

SpecOpen == InitProcess /\ [][NextOpen]_vars

\* the tables of mcp.sqlite
Collections ==
    sqlite.made \cup (IF rcTable THEN {"service-ninja-resource-contact"} ELSE {})

AssociationTools ==
    {"create_resource_contact", "get_resource_contact_by_ids", "list_resource_contacts",
     "update_resource_contact", "delete_resource_contact"}

\* C31: once getOrCreateSqlLite has opened the store, the four entity
\* tables and the association table all exist, and a call of an
\* association tool is not answered with a store error (it neither throws
\* nor reports that the statement failed).
C31_AllCollectionsExist ==
    /\ sqlite.db # 0
          => createTables \cup {"service-ninja-resource-contact"} \subseteq Collections
    /\ call.name \in AssociationTools
          => /\ result.kind = "envelope"
             /\ result.text[1] \notin
                   {"Failed to create resource-contact association",
                    "Failed to retrieve resource-contact association",
                    "Failed to retrieve resource-contact associations",
                    "Failed to update resource-contact association",
                    "Failed to delete resource-contact association"}

\* C35: under any interleaving of its callers getOrCreateSqlLite constructs
\* at most one Database, runs the table-creation statements at most once,
\* and returns one and the same instance to every caller.
C35_OneDatabaseInstance ==
    /\ sqlite.opened <= 1
    /\ sqlite.ddl <= 1
    /\ Cardinality(sqlite.returned) <= 1


(***************************************************************************)
(* SpecAssociations: resources, contacts and their associations, listed    *)
(* through the registered tool and by calling the handler as declared;     *)
(* the association table was created in mcp.sqlite by hand.                *)
(***************************************************************************)
AssociationFilters ==
    {EmptyObject} \cup {[resourceId |-> r] : r \in ParentIds}
        \cup {[contactId |-> c] : c \in ParentIds}
        \cup {[resourceId |-> r, contactId |-> c] : r \in ParentIds, c \in ParentIds}

NextAssociations ==
    \/ create_contact(CreateContactArgs, {0})
    \/ create_resource({Plain("api", 1), Plain("web", 1)}, {0})
    \/ delete_resource(ById, {0})
    \/ create_resource_contact({[resourceId |-> r, contactId |-> c, role |-> "owner"] :
                                   r \in ParentIds, c \in ParentIds}, {0})
    \/ list_resource_contacts(AssociationFilters, {0, 1})
    \/ getResourceContactToolListTool_call(AssociationFilters, {0, 1, 2})

InitLinked == Init /\ rcTable

SpecAssociations == InitLinked /\ [][NextAssociations]_vars

\* the associations the filter a asks for
Filtered(a) ==
    {rc \in resourceContacts :
        IF Has(a, "resourceId") THEN rc.resourceId = a.resourceId
        ELSE IF Has(a, "contactId") THEN rc.contactId = a.contactId
        ELSE TRUE}

\* the association a listed or stored row stands for
Association(r) == [resourceId |-> r.resourceId, contactId |-> r.contactId, role |-> r.role]

\* C32: a successful list_resource_contacts returns exactly the associations
\* matching its filter: those of the resource when resourceId is given,
\* those of the contact when only contactId is given, all of them when no
\* filter is given.
C32_ListMatchesFilter ==
    (call.name = "list_resource_contacts" /\ result.kind = "envelope" /\ ~result.isError)
        => {Association(d) : d \in result.data} = {Association(rc) : rc \in Filtered(call.args)}


(***************************************************************************)
(* SpecBulk: the delete-all-by-parent operations of the repositories over   *)
(* environments, resources and associations of two parents.                *)
(***************************************************************************)
BulkOps ==
    {"deleteServiceNinjaEnvsByProjectId", "deleteServiceNinjaResourcesByEnvId",
     "deleteServiceNinjaResourcesByProjectId", "deleteResourceContactsByResourceId",
     "deleteResourceContactsByContactId"}

NextBulk ==
    \/ create_environment({[name |-> "Dev", projectId |-> p] : p \in ParentIds}, {0})
    \/ create_resource({[name |-> "api", description |-> "d", type |-> "api",
                         projectId |-> p, envId |-> p] : p \in ParentIds}, {0})
    \/ create_resource_contact({[resourceId |-> 1, contactId |-> c, role |-> "owner"] :
                                   c \in ParentIds}, {0})
    \/ delete_all_by_parent(BulkOps, {0} \cup ParentIds, {0, 1})

SpecBulk == InitLinked /\ [][NextBulk]_vars

\* the rows of the table of operation op whose parent column is id
Children(op, id) ==
    CASE op = "deleteServiceNinjaEnvsByProjectId" -> {r \in envs : r.projectId = id}
      [] op = "deleteServiceNinjaResourcesByEnvId" -> {r \in resources : r.envId = id}
      [] op = "deleteServiceNinjaResourcesByProjectId" ->
             {r \in resources : r.projectId = id}
      [] op = "deleteResourceContactsByResourceId" ->
             {r \in resourceContacts : r.resourceId = id}
      [] op = "deleteResourceContactsByContactId" ->
             {r \in resourceContacts : r.contactId = id}
      [] OTHER -> {}

\* C33: a delete-all-by-parent operation that returns removes exactly the
\* rows whose parent column equals the id it was given and leaves every
\* other row as it was; it returns their number as deletedCount with
\* success true, also when no row matched (deletedCount 0).
C33_DeleteAllByParentExact ==
    [][(call'.via = "repo" /\ result'.kind = "fulfilled")
       => LET hit == Children(call'.name, call'.args.id)
              op == call'.name
          IN  /\ envs' = IF op = "deleteServiceNinjaEnvsByProjectId"
                         THEN envs \ hit ELSE envs
              /\ resources' = IF op \in {"deleteServiceNinjaResourcesByEnvId",
                                          "deleteServiceNinjaResourcesByProjectId"}
                              THEN resources \ hit ELSE resources
              /\ resourceContacts' = IF op \in {"deleteResourceContactsByResourceId",
                                                 "deleteResourceContactsByContactId"}
                                     THEN resourceContacts \ hit ELSE resourceContacts
              /\ UNCHANGED <<projects, contacts, rcTable>>
              /\ result'.data = {[success |-> TRUE, deletedCount |-> Cardinality(hit)]}]_vars


(***************************************************************************)
(* SpecProjectRace: create_project step by step, as the creates of         *)
(* SpecRace, over a table whose name column is UNIQUE.                     *)
(***************************************************************************)
RaceProjectArgs == {[name |-> n, description |-> "d"] : n \in {"Acme", "ACME", "Beta"}}

NextProjectRace ==
    \/ \E p \in Slots : create_check(p, "create_project", RaceProjectArgs)
    \/ create_refused("create_project", RaceProjectArgs)
    \/ \E p \in Slots : create_insert(p)
    \/ delete_project(ById, {0})

SpecProjectRace == InitFresh /\ [][NextProjectRace]_vars

\* C34: however concurrent create_project calls of one name (same letter
\* case) interleave, at most one project row of that name is stored: when
\* a create that passed its duplicate check comes to insert a name that
\* was stored in between, the UNIQUE constraint rejects the insert (the
\* call throws) and the table stays as it was.
C34_OneProjectPerName ==
    [][/\ \A r, s \in projects' : r.name = s.name => r.id = s.id
       /\ \A p \in Slots :
             (/\ running[p].pc = "checked" /\ running'[p].pc = "idle"
              /\ \E r \in projects : r.name = running[p].args.name)
                 => result'.kind = "rejected" /\ projects' = projects]_vars

\* a create_project that had passed its duplicate check threw at its
\* insert: the name had been stored by the other create
C34_Witness ==
    /\ call.name = "create_project"
    /\ result.kind = "rejected"
    /\ \E r \in projects : r.name = call.args.name

====
